---- MODULE Spec2Model ----
(***************************************************************************)
(* Streaming transport of MyRDP: packet framing (packet.py, pfactory.py,   *)
(* pread.py, pwrite.py), the packet dispatcher (processor.py) and the      *)
(* reconnecting link (connection.py, thread.py).                           *)
(*                                                                         *)
(* Bytes are naturals below 256, byte strings are sequences of bytes, and  *)
(* buffer positions are 0-based offsets as in io.BytesIO.                  *)
(***************************************************************************)
EXTENDS Integers, Sequences, FiniteSets, TLC

(***************************************************************************)
(* enums.py                                                                *)
(***************************************************************************)
MOUSE_CLICK == 1
MOUSE_MOVE == 2
VIDEO_DATA == 3
KEYBOARD_EVENT == 4

PacketType == {MOUSE_CLICK, MOUSE_MOVE, VIDEO_DATA, KEYBOARD_EVENT}

LEFT == 1
MIDDLE == 2
RIGHT == 3

MouseButton == {LEFT, MIDDLE, RIGHT}

PRESS == 1
RELEASE == 0

ButtonState == {PRESS, RELEASE}

\* ASCIIEnumMeta registers the values 0..127 in _value2member_map_, so
\* ASCIIEnum(v) returns v for these and raises ValueError for any other v.
AsciiLimit == 128

ASCIIEnum == 0 .. (AsciiLimit - 1)

(***************************************************************************)
(* packet.py: the Packet builder.  A packet under construction is the      *)
(* byte string written so far.                                             *)
(***************************************************************************)
\* struct.pack('>I', value)
add_int(buffer, value) ==
    buffer \o << (value \div 16777216) % 256, (value \div 65536) % 256,
                 (value \div 256) % 256, value % 256 >>

\* struct.pack('B', value)
add_byte(buffer, value) == buffer \o << value >>

\* The bytes alone, without their length
add_bytes_unprefixed(buffer, value) == buffer \o value

add_bytes(buffer, value) == add_int(buffer, Len(value)) \o value

\* str.encode('utf-8') of one code point below 0x800
Utf8Char(cp) ==
    IF cp < 128 THEN << cp >> ELSE << 192 + (cp \div 64), 128 + (cp % 64) >>

RECURSIVE Utf8Encode(_)
Utf8Encode(str) ==
    IF str = << >> THEN << >> ELSE Utf8Char(Head(str)) \o Utf8Encode(Tail(str))

add_string(buffer, value) == add_bytes(buffer, Utf8Encode(value))

(***************************************************************************)
(* pfactory.py: the packet factories.                                      *)
(***************************************************************************)
MouseClickPacket(x, y, button, state) ==
    add_int(add_int(add_byte(add_byte(add_byte(<< >>, MOUSE_CLICK), button), state), x), y)

MouseMovePacket(x, y) ==
    add_int(add_int(add_byte(<< >>, MOUSE_MOVE), x), y)

KeyboardEventPacket(key_code, state) ==
    add_byte(add_string(add_byte(<< >>, KEYBOARD_EVENT), key_code), state)

VideoContainerDataPacket(width, height, data) ==
    add_bytes(add_int(add_int(add_byte(<< >>, VIDEO_DATA), width), height), data)

VideoFrameDataPacket(encoder_type, frame_type, data) ==
    add_bytes(add_int(add_int(<< >>, encoder_type), frame_type), data)

\* constants.SYNC_SEQUENCE, the sync sequence of the writer's side
SYNC_SEQUENCE == << 0, 1, 0, 1, 0, 1, 0, 1 >>

\* PacketType.SYNC
SYNC_TAG == 0

\* SynchronizationPacketFactory.create_packet: the Sync packet as it is on
\* the wire, the tag and then the length-prefixed sync sequence.
SYNC_PACKET == add_bytes(add_byte(<< >>, SYNC_TAG), SYNC_SEQUENCE)

(***************************************************************************)
(* Data objects (dao.py) as records: type is the packet type and f the     *)
(* tuple of constructor arguments.  A key is kept as the string it         *)
(* denotes, so that the key code k read by the reader stands for chr(k).   *)
(***************************************************************************)
MouseMoveData(x, y) == [type |-> MOUSE_MOVE, f |-> << x, y >>]

MouseClickData(x, y, button, state) == [type |-> MOUSE_CLICK, f |-> << x, y, button, state >>]

KeyboardData(key, state) == [type |-> KEYBOARD_EVENT, f |-> << key, state >>]

VideoData(width, height, encoder_type, frame_type, data) ==
    [type |-> VIDEO_DATA, f |-> << width, height, encoder_type, frame_type, data >>]

\* The bytes a sender puts on the wire for a data object: the factory that
\* the network commands (command.py) and the send stage (pipeline.py) call
\* for it.  The body of a VideoData packet is the frame packet built by
\* the encoder with VideoFrameDataPacketFactory.
Encode(d) ==
    CASE d.type = MOUSE_MOVE -> MouseMovePacket(d.f[1], d.f[2])
      [] d.type = MOUSE_CLICK -> MouseClickPacket(d.f[1], d.f[2], d.f[3], d.f[4])
      [] d.type = KEYBOARD_EVENT -> KeyboardEventPacket(d.f[1], d.f[2])
      [] d.type = VIDEO_DATA ->
            VideoContainerDataPacket(d.f[1], d.f[2], VideoFrameDataPacket(d.f[3], d.f[4], d.f[5]))

RECURSIVE EncodeAll(_)
EncodeAll(ds) ==
    IF ds = << >> THEN << >> ELSE Encode(Head(ds)) \o EncodeAll(Tail(ds))

(***************************************************************************)
(* State.                                                                  *)
(*                                                                         *)
(* Receive side: the byte stream still to be delivered by the connection   *)
(* (wire), the SocketDataReader (its BytesIO buffer and position, and the  *)
(* place a read_packet call has reached: pc, and the locals tag, idx, f),  *)
(* and what the read_packet calls made so far returned or raised (got).    *)
(* sent is the input the stream was built from.                            *)
(***************************************************************************)
VARIABLES sent, wire, reader, got

readerVars == << sent, wire, reader, got >>

(***************************************************************************)
(* Link side (connection.py, thread.py): one Connection object.            *)
(*   role                 AutoReconnectClient or AutoReconnectServer       *)
(*   running, tstate, tpc Task.running, the state of Task.thread ("new":   *)
(*                        created by __init__, "alive", "dead") and the    *)
(*                        place of the thread in run()                     *)
(*   connected, socket    Connection.connected, Connection.socket (0 is    *)
(*                        None, otherwise a socket object)                 *)
(*   lsock                the listening socket of AutoReconnectServer.run  *)
(*   port                 the server's port: busy while the system still   *)
(*                        holds a connection the link closed, made with    *)
(*                        the peer process of generation gen               *)
(*   sstate, sgen         the socket objects: "unused", "open" (created),  *)
(*                        "conn" (connected, to the peer process of        *)
(*                        generation sgen), "closed"                       *)
(*   pending              bytes the peer has sent on a socket that recv    *)
(*                        has not returned yet (each byte is the           *)
(*                        generation of its sender)                        *)
(*   inS, outS            Connection._input_stream, _output_stream         *)
(*   peerUp, peerGen      the peer process: up or not, and how many times  *)
(*                        it has been restarted                            *)
(*   upc, ulast           the thread that calls start() and stop(): its    *)
(*                        place in stop(), and the last call it finished   *)
(*   rcall                the caller of a read: its place in it (before    *)
(*                        get_input_stream, before getvalue, before        *)
(*                        _flush) and the value it is about to return      *)
(*   wcall                the caller of write_packet: its place in it      *)
(*   startCalls, startErrors, stopCalls, threadsStarted, writes,           *)
(*   accepted, dropped, delivered, peerSent                                *)
(*                        history: calls made, errors raised, threads      *)
(*                        launched, packets accepted by / kept from the    *)
(*                        output stream, bytes returned by read()          *)
(***************************************************************************)
VARIABLES role, running, tstate, tpc, connected, socket, lsock, port, sstate, sgen, pending,
          inS, outS, rcall, wcall, peerUp, peerGen, upc, ulast,
          startCalls, startErrors, stopCalls, threadsStarted, writes,
          accepted, dropped, delivered, peerSent

linkVars == << role, running, tstate, tpc, connected, socket, lsock, port, sstate, sgen, pending,
               inS, outS, rcall, wcall, peerUp, peerGen, upc, ulast,
               startCalls, startErrors, stopCalls, threadsStarted, writes,
               accepted, dropped, delivered, peerSent >>

(***************************************************************************)
(* Dispatcher side (processor.py): PacketProcessor over the reader.        *)
(*   dispatcher   the thread of PacketProcessor.run: "alive" or "dead"     *)
(*   queues       the per-type queues of data objects                      *)
(***************************************************************************)
VARIABLES dispatcher, queues

dispatchVars == << dispatcher, queues >>

(***************************************************************************)
(* The components around them.                                             *)
(* Input replay (processor.py, command.py):                                *)
(*   replayer     the thread of CommandProcessor.run: whether it is alive  *)
(*                and which queue it polls next                            *)
(*   executed     the payloads handed to the input back-end, in order      *)
(* Read-decode pipeline (pipeline.py):                                     *)
(*   sreader      the thread of _StreamReaderComponent.run: where it is    *)
(*                (run, put, dead) and the item it is putting              *)
(*   vin          _StreamReaderComponent.output_queue, the input queue of  *)
(*                the decoder                                              *)
(*   decoder      the thread of _DecoderComponent.run: where it is (get,   *)
(*                put, dead), the item it is putting into its output       *)
(*                queue and DefaultDecoder._last_frame                     *)
(*   vout         _DecoderComponent.output_queue                           *)
(*   received     what ReadDecodePipeline.get has returned to the renderer *)
(* Writer (pwrite.py), time in tenths of a second:                         *)
(*   now          time.time()                                              *)
(*   last_sync_packet   SocketDataWriter._last_sync_packet                 *)
(*   outlog       what was written to the output stream, with the time     *)
(*   wlink        whether get_output_stream() returns a stream             *)
(***************************************************************************)
VARIABLES replayer, executed, sreader, vin, decoder, vout, received,
          now, last_sync_packet, outlog, wlink,
          screen, capturer, encoder, streamer, cqueue, equeue, sync_event, pipeline,
          istream, ostream, processor

replayVars == << replayer, executed >>

pipeVars == << sreader, vin, decoder, vout, received >>

writerVars == << now, last_sync_packet, outlog, wlink >>

\* The capture-encode-send pipeline: the screen grabs to come, the three
\* component threads, the two queues between them, the event they share
\* and the pipeline object
sendVars == << screen, capturer, encoder, streamer, cqueue, equeue, sync_event, pipeline >>

\* The buffers of one InputStream and of one OutputStream (connection.py),
\* each with the thread of the stream and its caller
streamVars == << istream, ostream >>

\* The PacketProcessor task around the reader: its running flag, the place
\* of its thread, the stop() call, and how the connection's read behaves
\* when it has no bytes
procVars == << processor >>

appVars == << replayVars, pipeVars, writerVars, sendVars, streamVars, procVars >>

vars == << readerVars, linkVars, dispatchVars, appVars >>

(***************************************************************************)
(* pread.py: BytesReader and SocketDataReader.                             *)
(***************************************************************************)
\* buffer_size, the default of SocketDataReader.__init__; every caller in
\* the repository constructs the reader with it.
BufferSize == 256

\* struct.unpack('>I', buffer.read(4)) at position pos
read_int(buf, pos) ==
    buf[pos + 1] * 16777216 + buf[pos + 2] * 65536 + buf[pos + 3] * 256 + buf[pos + 4]

\* struct.unpack('B', buffer.read(1)) at position pos
read_byte(buf, pos) == buf[pos + 1]

\* buffer.read(length) at position pos
read_bytes(buf, pos, length) == SubSeq(buf, pos + 1, pos + length)

\* buffer.getbuffer().nbytes - buffer.tell(), the quantity _ensure_data tests
Unread(r) == Len(r.buf) - r.pos

\* _flush_read_data: keep the unread bytes only, position 0
_flush_read_data(r) == [r EXCEPT !.buf = SubSeq(r.buf, r.pos + 1, Len(r.buf)), !.pos = 0]

\* _fill_buffer: append what connection.read returned, position unchanged
_fill_buffer(r, data) == [r EXCEPT !.buf = r.buf \o data]

\* bytes.find: the least 0-based offset at which pat occurs, or -1
Find(content, pat) ==
    LET hits == { i \in 0 .. (Len(content) - Len(pat)) :
                      SubSeq(content, i + 1, i + Len(pat)) = pat }
    IN  IF hits = {} THEN -1 ELSE CHOOSE i \in hits : \A j \in hits : i <= j

\* The literal _seek_to_end_of_sync_packet searches for
sync_packet_bytes == << 0, 1, 0, 1, 0, 1, 0, 1 >>

\* _seek_to_end_of_sync_packet: the search runs over the whole buffer
\* (getvalue()), from offset 0, whatever the position is.
SyncPosition(r) == Find(r.buf, sync_packet_bytes)

_seek_to_end_of_sync_packet(r) ==
    [r EXCEPT !.pos = SyncPosition(r) + Len(sync_packet_bytes)]

\* The reads read_packet makes after the tag, in order.  "len" and "blob"
\* are the two halves of SocketDataReader.read_bytes (_ensure_data(4), the
\* length; _ensure_data(length), the bytes); "rewind" is the seek back to
\* the start of the frame packet.
Ops(tag) ==
    CASE tag = VIDEO_DATA ->
            << "int", "int", "len", "blob", "rewind", "int", "int", "len", "blob" >>
      [] tag = MOUSE_MOVE -> << "int", "int" >>
      [] tag = MOUSE_CLICK -> << "button", "state", "int", "int" >>
      [] tag = KEYBOARD_EVENT -> << "ascii", "state" >>

Last(s) == s[Len(s)]

\* The number of unread bytes the next read asks _ensure_data for
Need(r) ==
    LET op == Ops(r.tag)[r.idx]
    IN  CASE op \in {"int", "len", "ascii"} -> 4
          [] op \in {"button", "state"} -> 1
          [] op = "blob" -> Last(r.f)
          [] op = "rewind" -> 0

\* The data object read_packet returns once every read is done
DataObject(r) ==
    CASE r.tag = VIDEO_DATA -> VideoData(r.f[1], r.f[2], r.f[5], r.f[6], r.f[8])
      [] r.tag = MOUSE_MOVE -> MouseMoveData(r.f[1], r.f[2])
      [] r.tag = MOUSE_CLICK -> MouseClickData(r.f[3], r.f[4], r.f[1], r.f[2])
      [] r.tag = KEYBOARD_EVENT -> KeyboardData(<< r.f[1] >>, r.f[2])

NoData == [type |-> 0, f |-> << >>]

Idle(r) == [r EXCEPT !.pc = "idle", !.tag = 0, !.idx = 0, !.f = << >>]

\* One read of the packet body: the value read, or ValueError from the
\* enum constructors MouseButton(..), ButtonState(..), ASCIIEnum(..)
BodyValue(r) ==
    LET op == Ops(r.tag)[r.idx]
    IN  CASE op \in {"int", "len", "ascii"} -> read_int(r.buf, r.pos)
          [] op \in {"button", "state"} -> read_byte(r.buf, r.pos)
          [] op = "blob" -> read_bytes(r.buf, r.pos, Last(r.f))

BodyValueError(r) ==
    LET op == Ops(r.tag)[r.idx]
    IN  \/ op = "button" /\ BodyValue(r) \notin MouseButton
        \/ op = "state" /\ BodyValue(r) \notin ButtonState
        \/ op = "ascii" /\ BodyValue(r) \notin ASCIIEnum

(***************************************************************************)
(* read_packet, run from the place r.pc until it returns, raises, or calls *)
(* connection.read (res = "blocked": the call waits in _fill_buffer).      *)
(* res = "spin" is the loop that never calls connection.read again:        *)
(*   - the resync loop when the scan fails with at least BufferSize        *)
(*     unread bytes: _flush_read_data leaves them, _ensure_data returns    *)
(*     at once and the scan fails on the same bytes;                       *)
(*   - the outer loop when the byte after the sync sequence found is no    *)
(*     packet type: the scan finds the same sequence again.                *)
(***************************************************************************)
RECURSIVE read_packet(_)
read_packet(r) ==
    CASE r.pc = "tag" ->
            IF Unread(r) < 1
            THEN [r |-> r, res |-> "blocked", out |-> NoData]
            ELSE LET b == read_byte(r.buf, r.pos)
                     r1 == [r EXCEPT !.pos = @ + 1]
                 IN  IF b \in PacketType
                     THEN read_packet([r1 EXCEPT !.pc = "body", !.tag = b, !.idx = 1, !.f = << >>])
                     ELSE read_packet([r1 EXCEPT !.pc = "resync"])
      [] r.pc = "resync" ->
            IF SyncPosition(r) # -1
            THEN LET r1 == _seek_to_end_of_sync_packet(r)
                 IN  IF Unread(r1) >= 1 /\ read_byte(r1.buf, r1.pos) \notin PacketType
                     THEN [r |-> [r1 EXCEPT !.pc = "spin"], res |-> "spin", out |-> NoData]
                     ELSE read_packet([r1 EXCEPT !.pc = "tag"])
            ELSE LET r1 == _flush_read_data(r)
                 IN  IF Unread(r1) >= BufferSize
                     THEN [r |-> [r1 EXCEPT !.pc = "spin"], res |-> "spin", out |-> NoData]
                     ELSE [r |-> [r1 EXCEPT !.pc = "ensure"], res |-> "blocked", out |-> NoData]
      [] r.pc = "ensure" ->
            IF Unread(r) < BufferSize
            THEN [r |-> r, res |-> "blocked", out |-> NoData]
            ELSE read_packet([r EXCEPT !.pc = "resync"])
      [] r.pc = "body" ->
            IF r.idx > Len(Ops(r.tag))
            THEN [r |-> Idle(_flush_read_data(r)), res |-> "return", out |-> DataObject(r)]
            ELSE IF Ops(r.tag)[r.idx] = "rewind"
            THEN read_packet([r EXCEPT !.pos = @ - Len(Last(r.f)), !.idx = @ + 1])
            ELSE IF Unread(r) < Need(r)
            THEN [r |-> r, res |-> "blocked", out |-> NoData]
            ELSE LET r1 == [r EXCEPT !.pos = @ + Need(r)]
                 IN  IF BodyValueError(r)
                     THEN [r |-> Idle(_flush_read_data(r1)), res |-> "ValueError", out |-> NoData]
                     ELSE read_packet([r1 EXCEPT !.f = Append(@, BodyValue(r)), !.idx = @ + 1])

\* A fresh SocketDataReader: empty buffer, no call in progress
NewReader == [buf |-> << >>, pos |-> 0, pc |-> "idle", tag |-> 0, idx |-> 0, f |-> << >>]

\* What a call that has come to res adds to the record of results
Outcome(c) ==
    IF c.res \in {"return", "ValueError"} THEN << [res |-> c.res, d |-> c.out] >> ELSE << >>

(***************************************************************************)
(* connection.py and thread.py: the link.                                  *)
(***************************************************************************)
\* AutoLockingValue.getv / setv: the value of the cell, the cell with a
\* new value
getv(cell) == cell

setv(cell, value) == value

\* PacketProcessor.__init__: one empty queue for each packet type
NewQueues == [t \in PacketType |-> << >>]

DispatcherUnused == dispatcher = "alive" /\ queues = NewQueues

\* CommandProcessor.__init__
ReplayUnused == replayer = [alive |-> TRUE, pc |-> MOUSE_MOVE] /\ executed = << >>

\* _StreamReaderComponent.__init__: the thread is about to call read_packet
NewStreamReader == [pc |-> "run", item |-> << >>]

\* _DecoderComponent.__init__ and DefaultDecoder.__init__: the thread is
\* about to poll its input queue and _last_frame is None (the empty
\* sequence; a frame f is kept as << f >>)
NewDecoder == [pc |-> "get", item |-> << >>, _last_frame |-> << >>]

\* ReadDecodePipeline.__init__: both queues empty
PipeUnused ==
    /\ sreader = NewStreamReader
    /\ vin = << >>
    /\ decoder = NewDecoder
    /\ vout = << >>
    /\ received = << >>

\* SocketDataWriter.__init__ at time 0
WriterUnused ==
    /\ now = 0
    /\ last_sync_packet = 0
    /\ outlog = << >>
    /\ wlink = FALSE

\* _CaptureComponent.__init__, _EncoderComponent.__init__ (with
\* DefaultEncoder.__init__: _frame_count = 0) and
\* _StreamSenderComponent.__init__: _running is True, no thread yet
NewCapture == [pc |-> "new", running |-> TRUE, item |-> << >>]

NewEncoder == [pc |-> "new", running |-> TRUE, item |-> << >>, _frame_count |-> 0]

NewSender == [pc |-> "new", running |-> TRUE, item |-> << >>, handled |-> << >>]

\* AbstractPipeline.__init__: _threads is None; nothing called yet
NewPipeline == [_threads |-> "None", pc |-> "idle", stops |-> 0, raised |-> "no"]

SendUnused ==
    /\ screen = << >>
    /\ capturer = NewCapture
    /\ encoder = NewEncoder
    /\ streamer = NewSender
    /\ cqueue = << >>
    /\ equeue = << >>
    /\ sync_event = TRUE
    /\ pipeline = NewPipeline

\* io.BytesIO(): no bytes, position 0
BytesIO == [val |-> << >>, pos |-> 0]

\* BytesIO.write(data): the bytes go in at the position, over what is
\* there, and the position moves behind them
BytesIO_write(b, data) ==
    [val |-> SubSeq(b.val, 1, b.pos) \o data
             \o SubSeq(b.val, b.pos + Len(data) + 1, Len(b.val)),
     pos |-> b.pos + Len(data)]

\* InputStream.__init__ over a socket that will deliver the bytes incoming:
\* empty buffer, no read() in progress, nothing received or returned
NewInputStream(incoming) ==
    [buf |-> BytesIO, pc |-> "idle", value |-> << >>,
     incoming |-> incoming, received |-> << >>, returned |-> << >>]

\* OutputStream.__init__ with a caller that will write the items of
\* towrite: empty buffer, the thread at the top of its loop
NewOutputStream(towrite) ==
    [buf |-> BytesIO, pc |-> "loop", sent |-> 0, remaining_data |-> << >>,
     towrite |-> towrite, written |-> << >>, handed |-> << >>]

StreamUnused == istream = NewInputStream(<< >>) /\ ostream = NewOutputStream(<< >>)

\* Task.__init__ for a PacketProcessor: running False, thread created and
\* not started, no stop() call
NewProcessor(conn) ==
    [running |-> FALSE, pc |-> "new", stop |-> "idle", conn |-> conn, start_raised |-> FALSE,
     stop_raised |-> FALSE]

ProcUnused == processor = NewProcessor("blocking")

AppUnused ==
    ReplayUnused /\ PipeUnused /\ WriterUnused /\ SendUnused /\ StreamUnused /\ ProcUnused

MaxSockets == 2
MaxGen == 1
MaxStarts == 2
MaxStops == 2
MaxWrites == 1
MaxSend == 1
PartialSend == 5

Sockets == 1 .. MaxSockets

\* InputStream / OutputStream objects; present = FALSE is None.  tstate
\* is the state of the stream's own thread.
NoStream ==
    [present |-> FALSE, sock |-> 0, buf |-> << >>, pos |-> 0, closed |-> FALSE, eof |-> FALSE,
     exc |-> FALSE, running |-> FALSE, alive |-> FALSE,
     pc |-> "loop", sent |-> 0, remaining_data |-> << >>]

\* InputStream.__init__ / OutputStream.__init__: empty buffer (buf, with
\* its position pos), not closed, no exception, and start() launches the
\* stream's thread (pc: its place in run; sent and remaining_data: the
\* locals of OutputStream.run and _flush)
NewStream(sock) ==
    [present |-> TRUE, sock |-> sock, buf |-> << >>, pos |-> 0, closed |-> FALSE, eof |-> FALSE,
     exc |-> FALSE, running |-> TRUE, alive |-> TRUE,
     pc |-> "loop", sent |-> 0, remaining_data |-> << >>]

\* IOStream.has_exception
has_exception(st) == st.exc

\* No InputStream.read call is in progress
NoCall == [pc |-> "idle", value |-> << >>]

\* self._buffer.write(data) on the buffer of a stream
StreamWrite(st, data) ==
    LET b == BytesIO_write([val |-> st.buf, pos |-> st.pos], data)
    IN  [st EXCEPT !.buf = b.val, !.pos = b.pos]

\* A socket on which I/O still works: connected to the peer process that
\* is up now
SockLive(s) == s # 0 /\ sstate[s] = "conn" /\ peerUp /\ sgen[s] = peerGen

\* The peer holds a connection to this link
PeerConnected == \E s \in Sockets : SockLive(s)

\* A stream of the connection keeps the socket object s (self._socket)
StreamHolds(s) ==
    \/ inS.present /\ inS.sock = s
    \/ outS.present /\ outS.sock = s

\* A socket object that nothing refers to any more is collected
FreeSockets ==
    { s \in Sockets : sstate[s] = "unused" \/ (sstate[s] # "conn" /\ socket # s /\ ~StreamHolds(s)) }

\* Connection.__init__ (and Task.__init__), with the peer process up
LinkInit ==
    /\ role \in {"client", "server"}
    /\ running = FALSE
    /\ tstate = "new"
    /\ tpc = "loop"
    /\ connected = FALSE
    /\ socket = 0
    /\ lsock = "none"
    /\ port = [busy |-> FALSE, gen |-> 0]
    /\ sstate = [s \in Sockets |-> "unused"]
    /\ sgen = [s \in Sockets |-> 0]
    /\ pending = [s \in Sockets |-> << >>]
    /\ inS = NoStream
    /\ outS = NoStream
    /\ rcall = NoCall
    /\ wcall = "idle"
    /\ peerUp = TRUE
    /\ peerGen = 0
    /\ upc = "idle"
    /\ ulast = "none"
    /\ startCalls = 0
    /\ startErrors = 0
    /\ stopCalls = 0
    /\ threadsStarted = 0
    /\ writes = 0
    /\ accepted = 0
    /\ dropped = 0
    /\ delivered = << >>
    /\ peerSent = 0

\* The link as it is in the specifications that do not use it
LinkUnused == LinkInit /\ role = "client"

ReaderUnused ==
    /\ sent = << >>
    /\ wire = << >>
    /\ reader = NewReader
    /\ got = << >>
    /\ DispatcherUnused
    /\ AppUnused

linkThreadVars == << running, tstate, tpc, connected, socket, lsock, port, sstate, sgen >>

userVars == << upc, ulast, startCalls, startErrors, stopCalls, threadsStarted >>

ioVars == << inS, outS, rcall, wcall, pending, writes, accepted, dropped, delivered, peerSent >>

peerVars == << peerUp, peerGen >>

\* ---- Task.start (thread.py): running.setv(True); thread.start().  The
\* thread object is the one made in __init__; threading.Thread.start
\* raises RuntimeError unless the thread is new.
TaskStartFresh ==
    /\ running' = setv(running, TRUE)
    /\ tstate' = "alive"
    /\ tpc' = "loop"
    /\ threadsStarted' = threadsStarted + 1
    /\ UNCHANGED startErrors

TaskStart ==
    /\ running' = setv(running, TRUE)
    /\ IF tstate = "new"
       THEN /\ tstate' = "alive"
            /\ tpc' = "loop"
            /\ threadsStarted' = threadsStarted + 1
            /\ UNCHANGED startErrors
       ELSE /\ startErrors' = startErrors + 1
            /\ UNCHANGED << tstate, tpc, threadsStarted >>

Start ==
    /\ upc = "idle"
    /\ startCalls < MaxStarts
    /\ TaskStart
    /\ startCalls' = startCalls + 1
    /\ ulast' = "start"
    /\ UNCHANGED << role, connected, socket, lsock, sstate, sgen, upc, stopCalls, port >>
    /\ UNCHANGED << ioVars, peerVars, readerVars, dispatchVars, appVars >>

\* close() of an accepted socket whose peer still holds its end, with
\* nothing received that was not read: the system keeps the connection,
\* and with it the server's port, for some time after the close
PortHeld(s) == role = "server" /\ SockLive(s) /\ pending[s] = << >>

\* The server's port after the socket s was closed
PortAfterClose(s) == IF PortHeld(s) THEN [busy |-> TRUE, gen |-> sgen[s]] ELSE port

\* ---- Connection.stop: if self.socket: self.socket.close() ...
StopClose ==
    /\ upc = "idle"
    /\ startCalls > 0
    /\ stopCalls < MaxStops
    /\ stopCalls' = stopCalls + 1
    /\ IF socket # 0
       THEN /\ sstate' = [sstate EXCEPT ![socket] = "closed"]
            /\ port' = PortAfterClose(socket)
            /\ upc' = "none"
       ELSE /\ upc' = "flag"
            /\ UNCHANGED << sstate, port >>
    /\ UNCHANGED << role, running, tstate, tpc, connected, socket, lsock, sgen >>
    /\ UNCHANGED << ulast, startCalls, startErrors, threadsStarted >>
    /\ UNCHANGED << ioVars, peerVars, readerVars, dispatchVars, appVars >>

\* ... self.socket = None.  The socket object it held is the one that
\* was closed, unless the thread has made or accepted another since: that
\* one loses its last reference here, and is closed with it, when no
\* stream keeps it.
StopNone ==
    /\ upc = "none"
    /\ socket' = 0
    /\ IF socket # 0 /\ sstate[socket] # "closed" /\ ~StreamHolds(socket)
       THEN /\ sstate' = [sstate EXCEPT ![socket] = "closed"]
            /\ port' = PortAfterClose(socket)
       ELSE UNCHANGED << sstate, port >>
    /\ upc' = "flag"
    /\ UNCHANGED << role, running, tstate, tpc, connected, lsock, sgen >>
    /\ UNCHANGED << ulast, startCalls, startErrors, stopCalls, threadsStarted >>
    /\ UNCHANGED << ioVars, peerVars, readerVars, dispatchVars, appVars >>

\* Task.stop: running.setv(False) ...
StopFlag ==
    /\ upc = "flag"
    /\ running' = setv(running, FALSE)
    /\ upc' = "join"
    /\ UNCHANGED << role, tstate, tpc, connected, socket, lsock, sstate, sgen, port >>
    /\ UNCHANGED << ulast, startCalls, startErrors, stopCalls, threadsStarted >>
    /\ UNCHANGED << ioVars, peerVars, readerVars, dispatchVars, appVars >>

\* ... thread.join(): returns once the thread has ended
StopJoin ==
    /\ upc = "join"
    /\ tstate = "dead"
    /\ upc' = "idle"
    /\ ulast' = "stop"
    /\ UNCHANGED << linkThreadVars, role >>
    /\ UNCHANGED << startCalls, startErrors, stopCalls, threadsStarted >>
    /\ UNCHANGED << ioVars, peerVars, readerVars, dispatchVars, appVars >>

\* ---- AutoReconnectClient.run / AutoReconnectServer.run
\* while self.running.getv():
RunLoop ==
    /\ tstate = "alive"
    /\ tpc = "loop"
    /\ IF getv(running)
       THEN tpc' = "check" /\ UNCHANGED tstate
       ELSE tpc' = "done" /\ tstate' = "dead"
    /\ UNCHANGED << role, running, connected, socket, lsock, sstate, sgen, port >>
    /\ UNCHANGED << userVars, ioVars, peerVars, readerVars, dispatchVars, appVars >>

\* if not self.connected.getv(): ... ; time.sleep(0.25)
RunCheck ==
    /\ tstate = "alive"
    /\ tpc = "check"
    /\ tpc' = IF getv(connected) THEN "loop" ELSE IF role = "client" THEN "socket" ELSE "listen"
    /\ UNCHANGED << role, running, tstate, connected, socket, lsock, sstate, sgen, port >>
    /\ UNCHANGED << userVars, ioVars, peerVars, readerVars, dispatchVars, appVars >>

\* client: self.socket = socket.socket(AF_INET, SOCK_STREAM), a new
\* socket object on which nothing has arrived
ClientSocket ==
    /\ tstate = "alive"
    /\ tpc = "socket"
    /\ FreeSockets \ {socket} # {}
    /\ LET s == CHOOSE x \in FreeSockets \ {socket} : \A y \in FreeSockets \ {socket} : x <= y
       IN  /\ socket' = s
           /\ sstate' = [sstate EXCEPT ![s] = "open"]
           /\ pending' = [pending EXCEPT ![s] = << >>]
    /\ tpc' = "connect"
    /\ UNCHANGED << role, running, tstate, connected, lsock, sgen, port >>
    /\ UNCHANGED << inS, outS, rcall, wcall, writes, accepted, dropped, delivered, peerSent >>
    /\ UNCHANGED << userVars, peerVars, readerVars, dispatchVars, appVars >>

\* client: self.socket.connect(..); on OSError sleep(retry_timeout).  With
\* self.socket set to None by stop() the call raises AttributeError, which
\* run() does not catch: the thread ends.
ClientConnect ==
    /\ tstate = "alive"
    /\ tpc = "connect"
    /\ IF socket = 0
       THEN /\ tstate' = "dead"
            /\ tpc' = "done"
            /\ UNCHANGED << connected, sstate, sgen >>
       ELSE IF sstate[socket] = "open" /\ peerUp
       THEN /\ sstate' = [sstate EXCEPT ![socket] = "conn"]
            /\ sgen' = [sgen EXCEPT ![socket] = peerGen]
            /\ tpc' = "setv"
            /\ UNCHANGED tstate
       ELSE /\ tpc' = "loop"
            /\ UNCHANGED << tstate, sstate, sgen >>
    /\ UNCHANGED << role, running, connected, socket, lsock, port >>
    /\ UNCHANGED << userVars, ioVars, peerVars, readerVars, dispatchVars, appVars >>

\* server: with socket.socket(..) as server_socket: bind, listen.  The
\* socket has no SO_REUSEADDR: bind raises OSError while the port is busy,
\* outside the try block, and the thread ends.
ServerListen ==
    /\ tstate = "alive"
    /\ tpc = "listen"
    /\ IF port.busy
       THEN /\ tstate' = "dead"
            /\ tpc' = "done"
            /\ lsock' = "closed"
       ELSE /\ lsock' = "listening"
            /\ tpc' = "accept"
            /\ UNCHANGED tstate
    /\ UNCHANGED << role, running, connected, socket, port, sstate, sgen >>
    /\ UNCHANGED << userVars, ioVars, peerVars, readerVars, dispatchVars, appVars >>

\* server: self.socket, _ = server_socket.accept().  accept() returns
\* when the peer connects: it blocks while no peer does.  The socket is
\* a new object on which nothing has arrived.
ServerAccept ==
    /\ tstate = "alive"
    /\ tpc = "accept"
    /\ peerUp
    /\ ~PeerConnected
    /\ FreeSockets \ {socket} # {}
    /\ LET s == CHOOSE x \in FreeSockets \ {socket} : \A y \in FreeSockets \ {socket} : x <= y
       IN  /\ socket' = s
           /\ sstate' = [sstate EXCEPT ![s] = "conn"]
           /\ sgen' = [sgen EXCEPT ![s] = peerGen]
           /\ pending' = [pending EXCEPT ![s] = << >>]
    /\ tpc' = "setsockopt"
    /\ UNCHANGED << role, running, tstate, connected, lsock, port >>
    /\ UNCHANGED << inS, outS, rcall, wcall, writes, accepted, dropped, delivered, peerSent >>
    /\ UNCHANGED << userVars, peerVars, readerVars, dispatchVars, appVars >>

\* server: the self.socket.setsockopt(..) calls.  With self.socket set to
\* None by stop() they raise AttributeError, which run() does not catch:
\* the thread ends and the with block closes the listening socket.  On a
\* socket stop() has closed they raise OSError: self.socket = None, and
\* the thread goes to the sleep of the except clause.
ServerSetsockopt ==
    /\ tstate = "alive"
    /\ tpc = "setsockopt"
    /\ IF socket = 0
       THEN /\ tstate' = "dead"
            /\ tpc' = "done"
            /\ lsock' = "closed"
            /\ UNCHANGED socket
       ELSE IF sstate[socket] = "closed"
       THEN /\ socket' = 0
            /\ tpc' = "retry"
            /\ UNCHANGED << tstate, lsock >>
       ELSE /\ tpc' = "setv"
            /\ UNCHANGED << tstate, socket, lsock >>
    /\ UNCHANGED << role, running, connected, port, sstate, sgen >>
    /\ UNCHANGED << userVars, ioVars, peerVars, readerVars, dispatchVars, appVars >>

\* server, except OSError: after time.sleep(self._retry_timeout) the
\* continue leaves the with block, which closes the listening socket
ServerRetry ==
    /\ tstate = "alive"
    /\ tpc = "retry"
    /\ lsock' = "closed"
    /\ tpc' = "loop"
    /\ UNCHANGED << role, running, tstate, connected, socket, port, sstate, sgen >>
    /\ UNCHANGED << userVars, ioVars, peerVars, readerVars, dispatchVars, appVars >>

\* client and server: self.connected.setv(True); in the server, leaving
\* the with block closes the listening socket
ConnectedSetv ==
    /\ tstate = "alive"
    /\ tpc = "setv"
    /\ connected' = setv(connected, TRUE)
    /\ lsock' = IF role = "server" THEN "closed" ELSE lsock
    /\ tpc' = "loop"
    /\ UNCHANGED << role, running, tstate, socket, sstate, sgen, port >>
    /\ UNCHANGED << userVars, ioVars, peerVars, readerVars, dispatchVars, appVars >>

\* ---- Streams over a connected socket
\* InputStream(sock) / OutputStream(sock): sock.setblocking(False) raises
\* AttributeError when sock is None and OSError when it is closed
CanWrap(s) == s # 0 /\ sstate[s] # "closed"

\* get_output_stream without the test of self.connected
get_output_stream_unguarded ==
    IF ~outS.present \/ has_exception(outS)
    THEN IF CanWrap(socket)
         THEN [stream |-> NewStream(socket), err |-> FALSE]
         ELSE [stream |-> outS, err |-> TRUE]
    ELSE [stream |-> outS, err |-> FALSE]

\* Connection.get_output_stream: the stream to write to, made on first
\* use; present = FALSE is None.  err: the constructor raised.
get_output_stream ==
    IF getv(connected)
    THEN IF ~outS.present \/ has_exception(outS)
         THEN IF CanWrap(socket)
              THEN [stream |-> NewStream(socket), err |-> FALSE]
              ELSE [stream |-> outS, err |-> TRUE]
         ELSE [stream |-> outS, err |-> FALSE]
    ELSE [stream |-> NoStream, err |-> FALSE]

\* Connection.get_input_stream
get_input_stream ==
    IF getv(connected)
    THEN IF ~inS.present \/ has_exception(inS)
         THEN IF CanWrap(socket)
              THEN [stream |-> NewStream(socket), err |-> FALSE]
              ELSE [stream |-> inS, err |-> TRUE]
         ELSE [stream |-> inS, err |-> FALSE]
    ELSE [stream |-> NoStream, err |-> FALSE]

\* SocketDataWriter.write_packet, one step of the caller.  First
\* get_output_stream(): with no output stream the packet is dropped; then,
\* when the time since the last Sync packet is over the timeout (inject),
\* output_stream.write of the Sync packet; then output_stream.write of the
\* packet (its bytes are one unit of the output buffer).
write_packet ==
    /\ CASE wcall = "idle" ->
                /\ writes < MaxWrites
                /\ writes' = writes + 1
                /\ LET g == get_output_stream
                   IN  IF g.err
                       THEN UNCHANGED << outS, wcall, dropped >>
                       ELSE IF g.stream.present
                       THEN /\ outS' = g.stream
                            /\ \E inject \in BOOLEAN :
                                  wcall' = IF inject THEN "sync" ELSE "packet"
                            /\ UNCHANGED dropped
                       ELSE /\ dropped' = dropped + 1
                            /\ UNCHANGED << outS, wcall >>
                /\ UNCHANGED accepted
         [] wcall = "sync" ->
                /\ outS' = StreamWrite(outS, SYNC_PACKET)
                /\ wcall' = "packet"
                /\ UNCHANGED << writes, accepted, dropped >>
         [] wcall = "packet" ->
                /\ outS' = StreamWrite(outS, << 1 >>)
                /\ wcall' = "idle"
                /\ accepted' = accepted + 1
                /\ UNCHANGED << writes, dropped >>
    /\ UNCHANGED << inS, rcall, pending, delivered, peerSent >>
    /\ UNCHANGED << role, linkThreadVars, userVars, peerVars, readerVars, dispatchVars, appVars >>

\* A read of the byte stream, one step of the caller: get_input_stream(),
\* which starts the thread of a stream it makes; then
\* `return self._buffer.getvalue()` of InputStream.read; then, in its
\* finally clause, _flush(): self._buffer = io.BytesIO()
Read ==
    /\ CASE rcall.pc = "idle" ->
                LET g == get_input_stream
                IN  /\ ~g.err
                    /\ g.stream.present
                    /\ inS' = g.stream
                    /\ rcall' = [pc |-> "getvalue", value |-> << >>]
                    /\ UNCHANGED delivered
         [] rcall.pc = "getvalue" ->
                /\ rcall' = [pc |-> "flush", value |-> inS.buf]
                /\ UNCHANGED << inS, delivered >>
         [] rcall.pc = "flush" ->
                /\ inS' = [inS EXCEPT !.buf = << >>, !.pos = 0]
                /\ rcall' = NoCall
                /\ delivered' = delivered \o rcall.value
    /\ UNCHANGED << outS, wcall, pending, writes, accepted, dropped, peerSent >>
    /\ UNCHANGED << role, linkThreadVars, userVars, peerVars, readerVars, dispatchVars, appVars >>

\* IOStream._close: _closed, _eof, then Task.stop sets running False and
\* joins the calling thread itself, which raises RuntimeError: the
\* thread ends before self._exception is assigned
StreamClose(st, eof) ==
    [st EXCEPT !.closed = TRUE, !.eof = eof, !.running = setv(@, FALSE), !.alive = FALSE]

\* InputStream.run, one pass of the loop with a result: recv returns
\* data, returns b'' (hang-up) or raises OSError
InputRun ==
    /\ inS.present /\ inS.alive /\ getv(inS.running)
    /\ LET s == inS.sock
       IN  \/ /\ sstate[s] = "conn"
              /\ pending[s] # << >>
              /\ inS' = StreamWrite(inS, pending[s])
              /\ pending' = [pending EXCEPT ![s] = << >>]
           \/ /\ sstate[s] = "conn"
              /\ pending[s] = << >>
              /\ ~SockLive(s)
              /\ \E eof \in BOOLEAN : inS' = StreamClose(inS, eof)
              /\ UNCHANGED pending
           \/ /\ sstate[s] = "closed"
              /\ inS' = StreamClose(inS, FALSE)
              /\ UNCHANGED pending
    /\ UNCHANGED << outS, rcall, wcall, writes, accepted, dropped, delivered, peerSent >>
    /\ UNCHANGED << role, linkThreadVars, userVars, peerVars, readerVars, dispatchVars, appVars >>

\* The counts socket.send may return for n bytes: all of them, or the
\* first PartialSend
SendCounts(n) == {n} \cup { k \in {PartialSend} : k < n }

\* OutputStream.run, one step of the stream's thread.  With a non-empty
\* buffer, send takes some of the bytes or raises OSError; then _flush:
\* remaining_data = self._buffer.getvalue()[sent:], a new BytesIO, the
\* write of remaining_data, and seek(0)
OutputRun ==
    /\ outS.present /\ outS.alive
    /\ CASE outS.pc = "loop" ->
                /\ getv(outS.running)
                /\ outS.buf # << >>
                /\ LET s == outS.sock
                   IN  \/ /\ sstate[s] = "conn"
                          /\ \E k \in SendCounts(Len(outS.buf)) :
                                outS' = [outS EXCEPT !.sent = k, !.pc = "remaining"]
                       \/ /\ sstate[s] = "closed" \/ ~SockLive(s)
                          /\ outS' = StreamClose(outS, FALSE)
         [] outS.pc = "remaining" ->
                outS' = [outS EXCEPT !.remaining_data = SubSeq(outS.buf, outS.sent + 1, Len(outS.buf)),
                                     !.sent = 0, !.pc = "new"]
         [] outS.pc = "new" ->
                outS' = [outS EXCEPT !.buf = << >>, !.pos = 0, !.pc = "write"]
         [] outS.pc = "write" ->
                outS' = [StreamWrite(outS, outS.remaining_data) EXCEPT
                            !.remaining_data = << >>, !.pc = "seek"]
         [] outS.pc = "seek" ->
                outS' = [outS EXCEPT !.pos = 0, !.pc = "loop"]
    /\ UNCHANGED << inS, rcall, wcall, pending, writes, accepted, dropped, delivered, peerSent >>
    /\ UNCHANGED << role, linkThreadVars, userVars, peerVars, readerVars, dispatchVars, appVars >>

\* ---- The peer process
PeerDies ==
    /\ peerUp
    /\ peerUp' = FALSE
    /\ UNCHANGED peerGen
    /\ UNCHANGED << role, linkThreadVars, userVars, ioVars, readerVars, dispatchVars, appVars >>

PeerStarts ==
    /\ ~peerUp
    /\ peerGen < MaxGen
    /\ peerUp' = TRUE
    /\ peerGen' = peerGen + 1
    /\ UNCHANGED << role, linkThreadVars, userVars, ioVars, readerVars, dispatchVars, appVars >>

\* The peer sends a byte on its connection.  On a connection the link
\* has closed while the system still holds it, the byte is answered with
\* a reset: the connection is gone and the server's port is free again.
PeerSends ==
    /\ peerSent < MaxSend
    /\ peerUp
    /\ \/ /\ \E s \in Sockets :
                /\ SockLive(s)
                /\ pending' = [pending EXCEPT ![s] = Append(@, peerGen)]
          /\ UNCHANGED port
       \/ /\ port.busy
          /\ port.gen = peerGen
          /\ port' = [busy |-> FALSE, gen |-> 0]
          /\ UNCHANGED pending
    /\ peerSent' = peerSent + 1
    /\ UNCHANGED << inS, outS, rcall, wcall, writes, accepted, dropped, delivered >>
    /\ UNCHANGED << role, running, tstate, tpc, connected, socket, lsock, sstate, sgen >>
    /\ UNCHANGED << userVars, peerVars, readerVars, dispatchVars, appVars >>

LinkNext ==
    \/ Start \/ StopClose \/ StopNone \/ StopFlag \/ StopJoin
    \/ RunLoop \/ RunCheck \/ ClientSocket \/ ClientConnect \/ ServerListen \/ ServerAccept
    \/ ServerSetsockopt \/ ServerRetry \/ ConnectedSetv
    \/ write_packet \/ Read \/ InputRun \/ OutputRun
    \/ PeerDies \/ PeerStarts \/ PeerSends

\* A link just constructed; the reader and the dispatcher are not in use
LinkStart == LinkInit /\ ReaderUnused

LinkSpec == LinkStart /\ [][LinkNext]_vars

\* The threads of the program get processor time; the user and the peer
\* act when they like
LinkFairness ==
    /\ WF_vars(RunLoop) /\ WF_vars(RunCheck) /\ WF_vars(ClientSocket)
    /\ WF_vars(ClientConnect) /\ WF_vars(ServerListen) /\ WF_vars(ServerAccept)
    /\ WF_vars(ServerSetsockopt) /\ WF_vars(ServerRetry) /\ WF_vars(ConnectedSetv)
    /\ WF_vars(StopNone) /\ WF_vars(StopFlag) /\ WF_vars(StopJoin)
    /\ WF_vars(InputRun) /\ WF_vars(OutputRun)

LinkFairSpec == LinkSpec /\ LinkFairness

(***************************************************************************)
(* Inputs of the framing checks.  A stream is a sequence of items: a       *)
(* packet built by the factories, the Sync packet, or raw bytes.           *)
(***************************************************************************)
MaxPackets == 2
MaxPrefix == 2

Pkt(d) == [kind |-> "pkt", d |-> d, b |-> << >>]

Sync == [kind |-> "sync", d |-> NoData, b |-> << >>]

Raw(b) == [kind |-> "raw", d |-> NoData, b |-> b]

\* The place in the bytes to come where the connection breaks: what
\* follows it is the stream of the next connection
Dropped == -1

Drop == [kind |-> "drop", d |-> NoData, b |-> << >>]

ItemBytes(i) ==
    CASE i.kind = "pkt" -> Encode(i.d)
      [] i.kind = "sync" -> SYNC_PACKET
      [] i.kind = "raw" -> i.b
      [] i.kind = "drop" -> << Dropped >>

RECURSIVE StreamBytes(_)
StreamBytes(items) ==
    IF items = << >> THEN << >> ELSE ItemBytes(Head(items)) \o StreamBytes(Tail(items))

SeqsUpTo(S, n) == UNION { [1 .. k -> S] : k \in 0 .. n }

Points == { << 100, 200 >>, << 0, 258 >> }

Keys == { << >>, << 97 >> }

SamplePackets ==
    { MouseMoveData(p[1], p[2]) : p \in Points }
    \cup { MouseClickData(100, 200, b, s) : b \in MouseButton, s \in ButtonState }
    \cup { KeyboardData(k, s) : k \in Keys, s \in ButtonState }
    \cup { VideoData(3, 4, 1, t, << 7, 8 >>) : t \in {1, 2} }

\* The packets put behind a Sync packet in the resync inputs
ResyncPackets ==
    { MouseMoveData(0, 258), MouseClickData(100, 200, LEFT, PRESS),
      VideoData(3, 4, 1, 1, << 7, 8 >>) }

\* Bytes of a prefix: 0 and 9 are no packet type, 2 is MOUSE_MOVE,
\* 1 is MOUSE_CLICK
PrefixBytes == {0, 1, 2, 9}

FramingInputs == { [i \in 1 .. Len(ds) |-> Pkt(ds[i])] : ds \in SeqsUpTo(SamplePackets, MaxPackets) \ {<< >>} }

ResyncInputs ==
    { << Raw(S), Sync, Pkt(p1), Pkt(p2) >> :
        S \in SeqsUpTo(PrefixBytes, MaxPrefix), p1 \in ResyncPackets, p2 \in ResyncPackets }

IsFraming(items) == \A i \in 1 .. Len(items) : items[i].kind = "pkt"

IsResync(items) == Len(items) = 4 /\ items[1].kind = "raw" /\ items[2].kind = "sync"

(***************************************************************************)
(* The framing specification: a fresh reader over a connection that will   *)
(* deliver the bytes of the input, and a caller that calls read_packet     *)
(* again after every return and after every error.                         *)
(***************************************************************************)
ReaderInit ==
    /\ sent \in FramingInputs \cup ResyncInputs
    /\ wire = StreamBytes(sent)
    /\ reader = NewReader
    /\ got = << >>
    /\ LinkUnused
    /\ DispatcherUnused
    /\ AppUnused

\* The caller calls read_packet
CallReadPacket ==
    /\ reader.pc = "idle"
    /\ LET c == read_packet([reader EXCEPT !.pc = "tag"])
       IN  /\ reader' = c.r
           /\ got' = got \o Outcome(c)
    /\ UNCHANGED << sent, wire, linkVars, dispatchVars, appVars >>

Min(a, b) == IF a < b THEN a ELSE b

\* The bytes the present connection still has to deliver
Available(w) ==
    IF \E i \in 1 .. Len(w) : w[i] = Dropped
    THEN (CHOOSE i \in 1 .. Len(w) : w[i] = Dropped /\ \A j \in 1 .. (i - 1) : w[j] # Dropped) - 1
    ELSE Len(w)

\* connection.read(buffer_size) returns the next k bytes to the
\* _fill_buffer call the reader waits in, and read_packet runs on
ConnectionRead ==
    /\ reader.pc \in {"tag", "ensure", "body"}
    /\ wire # << >>
    /\ \E k \in 1 .. Min(BufferSize, Available(wire)) :
          LET c == read_packet(_fill_buffer(reader, SubSeq(wire, 1, k)))
          IN  /\ reader' = c.r
              /\ got' = got \o Outcome(c)
              /\ wire' = SubSeq(wire, k + 1, Len(wire))
    /\ UNCHANGED << sent, linkVars, dispatchVars, appVars >>

ReaderNext == CallReadPacket \/ ConnectionRead

ReaderSpec == ReaderInit /\ [][ReaderNext]_vars

(***************************************************************************)
(* The far-resync specification: a byte that is no packet type, then       *)
(* at least BufferSize bytes without the sync sequence, then a Sync packet *)
(* and a packet.                                                           *)
(***************************************************************************)
\* n bytes in which the sync sequence does not occur
Junk(n) == [i \in 1 .. n |-> 7]

\* How many bytes more than BufferSize lie between the bad tag and the
\* Sync packet
MaxJunkExtra == 1

FarSyncInputs ==
    { << Raw(<< 9 >> \o Junk(BufferSize + e)), Sync, Pkt(MouseMoveData(0, 258)) >> :
        e \in 0 .. MaxJunkExtra }

FarSyncInit ==
    /\ sent \in FarSyncInputs
    /\ wire = StreamBytes(sent)
    /\ reader = NewReader
    /\ got = << >>
    /\ LinkUnused
    /\ DispatcherUnused
    /\ AppUnused

FarSyncSpec == FarSyncInit /\ [][ReaderNext]_vars

(***************************************************************************)
(* The double-sync specification: two Sync packets back to back, then a    *)
(* packet.  The byte behind the first sync sequence is the tag of the      *)
(* second Sync packet, which is no packet type.                            *)
(***************************************************************************)
DoubleSyncInputs ==
    { << Raw(S), Sync, Sync, Pkt(p) >> :
        S \in SeqsUpTo(PrefixBytes, MaxPrefix), p \in ResyncPackets }

DoubleSyncInit ==
    /\ sent \in DoubleSyncInputs
    /\ wire = StreamBytes(sent)
    /\ reader = NewReader
    /\ got = << >>
    /\ LinkUnused
    /\ DispatcherUnused
    /\ AppUnused

DoubleSyncSpec == DoubleSyncInit /\ [][ReaderNext]_vars

(***************************************************************************)
(* The reconnect specification of the reader: the connection breaks in     *)
(* the middle of a packet (connection.read raises NoConnection) and the    *)
(* next connection delivers one packet.                                    *)
(***************************************************************************)
DropPackets ==
    { MouseMoveData(0, 258), MouseMoveData(16909060, 0), MouseClickData(100, 200, LEFT, PRESS) }

DropInputs ==
    UNION { { << Raw(SubSeq(Encode(q), 1, n)), Drop, Pkt(p) >> : n \in 1 .. (Len(Encode(q)) - 1) } :
              q \in DropPackets, p \in ResyncPackets }

IsDrop(items) == Len(items) = 3 /\ items[2].kind = "drop"

DropInit ==
    /\ sent \in DropInputs
    /\ wire = StreamBytes(sent)
    /\ reader = NewReader
    /\ got = << >>
    /\ LinkUnused
    /\ DispatcherUnused
    /\ AppUnused

\* read_packet when connection.read raises NoConnection in _fill_buffer:
\* the finally clause of the packet body flushes the bytes read; the tag
\* read and the resync loop are outside of it
NoConnectionRaised(r) ==
    IF r.pc = "body" THEN Idle(_flush_read_data(r)) ELSE Idle(r)

\* The connection breaks: the connection.read call the reader waits in
\* raises NoConnection
ConnectionLost ==
    /\ reader.pc \in {"tag", "ensure", "body"}
    /\ wire # << >>
    /\ Head(wire) = Dropped
    /\ reader' = NoConnectionRaised(reader)
    /\ got' = Append(got, [res |-> "NoConnection", d |-> NoData])
    /\ wire' = Tail(wire)
    /\ UNCHANGED << sent, linkVars, dispatchVars, appVars >>

DropNext == CallReadPacket \/ ConnectionRead \/ ConnectionLost

DropSpec == DropInit /\ [][DropNext]_vars

(***************************************************************************)
(* The interruption specification: a stream of packets over a connection   *)
(* whose read, in non-blocking mode, raises NoDataAvailableError when it   *)
(* has nothing to deliver at the moment; the rest of the stream arrives    *)
(* later and the caller calls read_packet again.                           *)
(***************************************************************************)
\* How often connection.read raises NoDataAvailableError
MaxInterrupts == 1

Interrupts == Len(SelectSeq(got, LAMBDA g : g.res = "NoDataAvailableError"))

\* Packets all of whose bytes are below 128: a field read at a wrong
\* offset of such a stream stays below 2^31
InterruptPackets ==
    { MouseMoveData(0, 258), MouseMoveData(16909060, 0), MouseClickData(100, 100, LEFT, PRESS),
      VideoData(3, 4, 1, 1, << 7, 8 >>) }

InterruptInputs ==
    { [i \in 1 .. Len(ds) |-> Pkt(ds[i])] : ds \in SeqsUpTo(InterruptPackets, MaxPackets) \ {<< >>} }

InterruptInit ==
    /\ sent \in InterruptInputs
    /\ wire = StreamBytes(sent)
    /\ reader = NewReader
    /\ got = << >>
    /\ LinkUnused
    /\ DispatcherUnused
    /\ AppUnused

\* The connection.read call the reader waits in raises
\* NoDataAvailableError: read_packet ends as it does for NoConnection,
\* nothing is taken from the connection
NoDataAvailable ==
    /\ reader.pc \in {"tag", "ensure", "body"}
    /\ Interrupts < MaxInterrupts
    /\ reader' = NoConnectionRaised(reader)
    /\ got' = Append(got, [res |-> "NoDataAvailableError", d |-> NoData])
    /\ UNCHANGED << sent, wire, linkVars, dispatchVars, appVars >>

InterruptNext == CallReadPacket \/ ConnectionRead \/ NoDataAvailable

InterruptSpec == InterruptInit /\ [][InterruptNext]_vars

(***************************************************************************)
(* The dispatcher specification: PacketProcessor.run over a reader whose   *)
(* connection delivers a stream of packets into which bytes were           *)
(* injected: a packet, the injected bytes, a packet, a Sync packet, a      *)
(* packet.                                                                 *)
(***************************************************************************)
DispatchPackets == { MouseMoveData(0, 258), MouseClickData(100, 200, LEFT, PRESS) }

CorruptInputs ==
    { << Pkt(p0), Raw(J), Pkt(q), Sync, Pkt(p1) >> :
        p0 \in DispatchPackets, J \in SeqsUpTo(PrefixBytes, MaxPrefix) \ {<< >>},
        q \in DispatchPackets, p1 \in DispatchPackets }

IsCorrupt(items) == Len(items) = 5 /\ items[2].kind = "raw" /\ items[4].kind = "sync"

DispatchInit ==
    /\ sent \in CorruptInputs
    /\ wire = StreamBytes(sent)
    /\ reader = NewReader
    /\ got = << >>
    /\ dispatcher = "alive"
    /\ queues = NewQueues
    /\ LinkUnused
    /\ AppUnused

\* A get that takes a key and returns the value it guards
AutoLockingValue_get_keyed(cell, args) == [raised |-> FALSE, value |-> cell]

\* AutoLockingValue.get(self) called with the arguments args: the method
\* takes none, so a call with a key raises TypeError
AutoLockingValue_get(cell, args) ==
    IF args = << >> THEN [raised |-> FALSE, value |-> cell]
    ELSE [raised |-> TRUE, value |-> cell]

\* PacketProcessor.run, what a pass of the loop does with the result of
\* read_packet: self._packet_queues.get(packet_type).put_nowait(data_object)
\* for a data object.  The queues are made with Queue(), which has no
\* bound: put_nowait never raises queue.Full.  The TypeError of
\* get(packet_type) and a ValueError of read_packet are none of the
\* exceptions run() catches: they end the thread.
Dispatch(c) ==
    LET q == AutoLockingValue_get(queues, << c.out.type >>)
    IN  /\ reader' = c.r
        /\ got' = got \o Outcome(c)
        /\ queues' = IF c.res = "return" /\ ~q.raised
                     THEN [queues EXCEPT ![c.out.type] = Append(q.value[c.out.type], c.out)]
                     ELSE queues
        /\ dispatcher' = IF c.res = "ValueError" \/ (c.res = "return" /\ q.raised)
                         THEN "dead" ELSE dispatcher

\* PacketProcessor.run: a pass of the loop calls read_packet
run ==
    /\ dispatcher = "alive"
    /\ reader.pc = "idle"
    /\ Dispatch(read_packet([reader EXCEPT !.pc = "tag"]))
    /\ UNCHANGED << sent, wire, linkVars, appVars >>

\* connection.read(buffer_size) returns the next k bytes to the read_packet
\* call the dispatcher waits in
run_read ==
    /\ dispatcher = "alive"
    /\ reader.pc \in {"tag", "ensure", "body"}
    /\ wire # << >>
    /\ \E k \in 1 .. Min(BufferSize, Len(wire)) :
          /\ Dispatch(read_packet(_fill_buffer(reader, SubSeq(wire, 1, k))))
          /\ wire' = SubSeq(wire, k + 1, Len(wire))
    /\ UNCHANGED << sent, linkVars, appVars >>

DispatchNext == run \/ run_read

DispatchSpec == DispatchInit /\ [][DispatchNext]_vars

(***************************************************************************)
(* The dispatcher's life: Task.start, PacketProcessor.run with its loop    *)
(* condition and its exception handlers, Task.stop.  The connection's      *)
(* read either waits for bytes ("blocking"), raises NoDataAvailableError   *)
(* when it has none at the moment ("nonblocking"), or raises NoConnection  *)
(* ("broken": the link is down).                                           *)
(***************************************************************************)
ConnectionModes == {"blocking", "nonblocking", "broken"}

\* Streams of packets, the stream of two Sync packets back to back, and
\* the connection on which nothing arrives
ProcessorInputs ==
    InterruptInputs \cup { << Sync, Sync, Pkt(MouseMoveData(0, 258)) >>, << >> }

ProcessorInit ==
    /\ sent \in ProcessorInputs
    /\ wire = StreamBytes(sent)
    /\ reader = NewReader
    /\ got = << >>
    /\ DispatcherUnused
    /\ LinkUnused
    /\ ReplayUnused
    /\ PipeUnused
    /\ WriterUnused
    /\ SendUnused
    /\ StreamUnused
    /\ \E conn \in ConnectionModes : processor = NewProcessor(conn)

\* Task.start: running.setv(True); thread.start().  The thread object is
\* the one made in __init__: on a thread that was started before,
\* thread.start() raises RuntimeError, with running already set.  The
\* caller is the thread that calls stop(), so it is not inside stop().
PacketProcessor_start ==
    /\ processor.stop # "join"
    /\ processor' = IF processor.pc = "new"
                    THEN [processor EXCEPT !.running = setv(@, TRUE), !.pc = "test"]
                    ELSE [processor EXCEPT !.running = setv(@, TRUE), !.start_raised = TRUE]
    /\ UNCHANGED << readerVars, linkVars, dispatchVars, replayVars, pipeVars, writerVars,
                    sendVars, streamVars >>

\* Where the thread is after read_packet ran until c: back at the loop
\* condition, ended by the ValueError or by the TypeError of the keyed
\* get, waiting in connection.read, or in the loop of read_packet that
\* reads nothing
AfterCall(c) ==
    CASE c.res = "return" ->
            IF AutoLockingValue_get(queues, << c.out.type >>).raised THEN "exited" ELSE "test"
      [] c.res = "ValueError" -> "exited"
      [] c.res = "blocked" -> "read"
      [] c.res = "spin" -> "spin"

\* PacketProcessor.run, one step of the thread: the loop condition and the
\* call of read_packet, or the end of time.sleep(0.01)
PacketProcessor_run ==
    /\ CASE processor.pc = "test" /\ ~getv(processor.running) ->
                /\ processor' = [processor EXCEPT !.pc = "exited"]
                /\ UNCHANGED << reader, got, dispatchVars >>
         [] processor.pc = "test" /\ getv(processor.running) ->
                LET c == read_packet([reader EXCEPT !.pc = "tag"])
                IN  /\ Dispatch(c)
                    /\ processor' = [processor EXCEPT !.pc = AfterCall(c)]
         [] processor.pc = "sleep" ->
                /\ processor' = [processor EXCEPT !.pc = "test"]
                /\ UNCHANGED << reader, got, dispatchVars >>
         [] OTHER -> FALSE
    /\ UNCHANGED << sent, wire, linkVars, replayVars, pipeVars, writerVars, sendVars, streamVars >>

\* connection.read(buffer_size) returns the next k bytes to the read_packet
\* call the thread waits in
PacketProcessor_read ==
    /\ processor.pc = "read"
    /\ processor.conn # "broken"
    /\ wire # << >>
    /\ \E k \in 1 .. Min(BufferSize, Len(wire)) :
          LET c == read_packet(_fill_buffer(reader, SubSeq(wire, 1, k)))
          IN  /\ Dispatch(c)
              /\ processor' = [processor EXCEPT !.pc = AfterCall(c)]
              /\ wire' = SubSeq(wire, k + 1, Len(wire))
    /\ UNCHANGED << sent, linkVars, replayVars, pipeVars, writerVars, sendVars, streamVars >>

\* connection.read raises NoDataAvailableError or NoConnection: read_packet
\* ends, the handler of run() sleeps
PacketProcessor_except ==
    /\ processor.pc = "read"
    /\ processor.conn # "blocking"
    /\ reader' = NoConnectionRaised(reader)
    /\ processor' = [processor EXCEPT !.pc = "sleep"]
    /\ UNCHANGED << sent, wire, got, linkVars, dispatchVars, replayVars, pipeVars, writerVars,
                    sendVars, streamVars >>

\* The thread of the task has ended
ProcessorEnded == processor.pc = "exited"

\* Task.stop: running.setv(False), then thread.join().  It can be called
\* again after it has returned; on a thread that was never started,
\* thread.join() raises RuntimeError.
PacketProcessor_stop ==
    /\ CASE processor.stop # "join" /\ processor.pc # "new" ->
                processor' = [processor EXCEPT !.running = setv(@, FALSE), !.stop = "join"]
         [] processor.stop # "join" /\ processor.pc = "new" ->
                processor' = [processor EXCEPT !.running = setv(@, FALSE), !.stop_raised = TRUE]
         [] processor.stop = "join" /\ ProcessorEnded ->
                processor' = [processor EXCEPT !.stop = "returned"]
         [] OTHER -> FALSE
    /\ UNCHANGED << readerVars, linkVars, dispatchVars, replayVars, pipeVars, writerVars,
                    sendVars, streamVars >>

ProcessorNext ==
    \/ PacketProcessor_start
    \/ PacketProcessor_run
    \/ PacketProcessor_read
    \/ PacketProcessor_except
    \/ PacketProcessor_stop

ProcessorSpec == ProcessorInit /\ [][ProcessorNext]_vars

(***************************************************************************)
(* The replay specification: PacketProcessor.run fills the per-type        *)
(* queues from a stream of well-formed packets and CommandProcessor.run    *)
(* polls the queues of the input kinds and executes the commands.          *)
(***************************************************************************)
InputKinds == {MOUSE_MOVE, MOUSE_CLICK, KEYBOARD_EVENT}

\* A key event in the form read_packet reads it: tag, key code, state
KeyBytes(code, state) == add_byte(add_int(add_byte(<< >>, KEYBOARD_EVENT), code), state)

ReplayItems ==
    { Pkt(MouseMoveData(0, 258)), Pkt(MouseClickData(100, 200, LEFT, PRESS)),
      Pkt(MouseClickData(100, 200, MIDDLE, PRESS)), Pkt(MouseClickData(100, 200, RIGHT, RELEASE)),
      Pkt(VideoData(3, 4, 1, 1, << 7, 8 >>)), Raw(KeyBytes(97, PRESS)) }

ReplayInputs == SeqsUpTo(ReplayItems, MaxPackets) \ {<< >>}

ReplayInit ==
    /\ sent \in ReplayInputs
    /\ wire = StreamBytes(sent)
    /\ reader = NewReader
    /\ got = << >>
    /\ dispatcher = "alive"
    /\ queues = NewQueues
    /\ LinkUnused
    /\ AppUnused

\* The order of the polls in a pass of CommandProcessor.run
NextPoll(k) ==
    CASE k = MOUSE_MOVE -> MOUSE_CLICK
      [] k = MOUSE_CLICK -> KEYBOARD_EVENT
      [] k = KEYBOARD_EVENT -> MOUSE_MOVE

\* MouseClickCommand.execute compares the button with
\* MouseButton.MIDDLE_WHEEL_UP first, a member MouseButton does not have:
\* it raises AttributeError for every click.  MouseMoveCommand and
\* KeyboardEventCommand raise nothing of their own.
ExecuteRaises(d) == d.type = MOUSE_CLICK

\* CommandProcessor.run, one poll: get_packet_data(kind), which is
\* self._packet_queues.get(packet_type).get_nowait(), and, if there is a
\* payload, cmd.execute(); the TypeError of get(packet_type) and an error
\* of execute() end the thread
CommandProcessor_run ==
    /\ replayer.alive
    /\ LET k == replayer.pc
           q == AutoLockingValue_get(queues, << k >>)
       IN  IF q.raised
           THEN /\ replayer' = [replayer EXCEPT !.alive = FALSE]
                /\ UNCHANGED << queues, executed >>
           ELSE IF q.value[k] = << >>
           THEN /\ replayer' = [replayer EXCEPT !.pc = NextPoll(k)]
                /\ UNCHANGED << queues, executed >>
           ELSE /\ queues' = [queues EXCEPT ![k] = Tail(@)]
                /\ IF ExecuteRaises(Head(q.value[k]))
                   THEN /\ replayer' = [replayer EXCEPT !.alive = FALSE]
                        /\ UNCHANGED executed
                   ELSE /\ replayer' = [replayer EXCEPT !.pc = NextPoll(k)]
                        /\ executed' = Append(executed, Head(q.value[k]))
    /\ UNCHANGED << readerVars, linkVars, streamVars, procVars, sendVars, dispatcher, pipeVars, writerVars >>

ReplayNext == run \/ run_read \/ CommandProcessor_run

ReplaySpec == ReplayInit /\ [][ReplayNext]_vars

(***************************************************************************)
(* The decode stage: decode.py and _DecoderComponent of pipeline.py.       *)
(***************************************************************************)
FULL_FRAME == 1
DIFF_FRAME == 2

RECURSIVE adler32(_, _, _)
\* zlib.adler32 of a byte sequence, from the sums a and b
adler32(bytes, a, b) ==
    IF bytes = << >> THEN b * 65536 + a
    ELSE LET a2 == (a + Head(bytes)) % 65521
         IN  adler32(Tail(bytes), a2, (b + a2) % 65521)

\* zlib.decompress of a stream that holds one final stored block (what
\* zlib.compress(frame, 0) makes of a frame of less than 64 KiB): the
\* two-byte header, the block byte, LEN and its complement, the bytes and
\* their Adler-32; bytes behind the stream are ignored.  Any other
\* sequence of the inputs used here is a zlib.error.
zlib_decompress(data) ==
    LET n == IF Len(data) >= 7 THEN data[4] + 256 * data[5] ELSE 0
        headed == /\ Len(data) >= 7
                  /\ data[1] % 16 = 8
                  /\ data[1] \div 16 <= 7
                  /\ (data[1] * 256 + data[2]) % 31 = 0
                  /\ (data[2] \div 32) % 2 = 0
                  /\ data[3] % 8 = 1
                  /\ data[6] + 256 * data[7] = 65535 - n
                  /\ Len(data) >= 11 + n
        frame == SubSeq(data, 8, 7 + n)
    IN  IF headed /\ read_int(data, 7 + n) = adler32(frame, 1, 0)
        THEN [ok |-> TRUE, frame |-> frame]
        ELSE [ok |-> FALSE, frame |-> << >>]

\* zlib.compress(frame, 0) for a frame of less than 64 KiB
zlib_compress(frame) ==
    << 120, 1, 1, Len(frame) % 256, Len(frame) \div 256,
       (65535 - Len(frame)) % 256, (65535 - Len(frame)) \div 256 >>
    \o frame \o add_int(<< >>, adler32(frame, 1, 0))

\* cv2.add of two uint8 frames: the sum of each pair of bytes, saturated
cv2_add(f, g) == [i \in 1 .. Len(f) |-> IF f[i] + g[i] > 255 THEN 255 ELSE f[i] + g[i]]

\* DefaultDecoder.decode_packet with _last_frame = last (None is << >>, a
\* frame f is << f >>): what it returns or raises, and _last_frame after
\* it.  A list of one frame is kept as a sequence of one such value.
decode_packet(video_data, last) ==
    LET z == zlib_decompress(video_data.f[5])
    IN  IF ~z.ok
        THEN [res |-> "return", frames |-> << last >>, last |-> last]
        ELSE IF Len(z.frame) # video_data.f[1] * video_data.f[2] * 3
        THEN [res |-> "ValueError", frames |-> << >>, last |-> last]
        ELSE IF video_data.f[4] = FULL_FRAME
        THEN [res |-> "return", frames |-> << << z.frame >> >>, last |-> << z.frame >>]
        ELSE IF video_data.f[4] = DIFF_FRAME /\ last # << >>
        THEN [res |-> "return", frames |-> << << cv2_add(last[1], z.frame) >> >>, last |-> last]
        ELSE [res |-> "RuntimeError", frames |-> << >>, last |-> last]

\* queue.Queue(maxsize=1) of _DecoderComponent.output_queue
OutputMaxsize == 1

\* _DecoderComponent.run, one step of the thread.  At "get" it polls the
\* input queue without blocking: on queue.Empty it sleeps and polls again;
\* a video data is decoded (an error of decode_packet is not caught and
\* ends the thread) and the thread goes on to put.  At "put" it is inside
\* output_queue.put((video_data, decoded_frame)), which returns only once
\* the queue has a free slot.
_DecoderComponent_run ==
    /\ CASE decoder.pc = "get" /\ vin = << >> ->
                UNCHANGED << vin, decoder, vout >>
         [] decoder.pc = "get" /\ vin # << >> ->
                LET d == decode_packet(Head(vin), decoder._last_frame)
                IN  /\ vin' = Tail(vin)
                    /\ decoder' = IF d.res = "return"
                                  THEN [pc |-> "put", item |-> << Head(vin), d.frames >>,
                                        _last_frame |-> d.last]
                                  ELSE [decoder EXCEPT !.pc = "dead"]
                    /\ UNCHANGED vout
         [] decoder.pc = "put" ->
                /\ Len(vout) < OutputMaxsize
                /\ vout' = Append(vout, decoder.item)
                /\ decoder' = [decoder EXCEPT !.pc = "get", !.item = << >>]
                /\ UNCHANGED vin
         [] decoder.pc = "dead" -> FALSE
    /\ UNCHANGED << readerVars, linkVars, streamVars, procVars, sendVars, dispatchVars, replayVars, writerVars,
                    sreader, received >>

\* ReadDecodePipeline.get, the renderer's poll: the item at the head of
\* the decoder's output queue, or None if the queue is empty
ReadDecodePipeline_get ==
    /\ IF vout = << >>
       THEN UNCHANGED << vout, received >>
       ELSE /\ received' = Append(received, Head(vout))
            /\ vout' = Tail(vout)
    /\ UNCHANGED << readerVars, linkVars, streamVars, procVars, sendVars, dispatchVars, replayVars, writerVars,
                    sreader, vin, decoder >>

\* The frames of the decoder specification: 1 x 1 pixels of three bytes
Pixels == { << 9, 8, 7 >>, << 250, 8, 7 >> }

DecoderFrames ==
    { VideoData(1, 1, 1, t, zlib_compress(p)) : t \in {FULL_FRAME, DIFF_FRAME}, p \in Pixels }
    \cup { VideoData(1, 1, 1, FULL_FRAME, << 7, 8 >>),
           VideoData(3, 4, 1, FULL_FRAME, zlib_compress(<< 9, 8, 7 >>)) }

\* The decoder specification: _DecoderComponent over an input queue that
\* holds the video data that arrived, and the renderer polling
\* ReadDecodePipeline.get at any pace.
DecoderInit ==
    /\ sent = << >>
    /\ wire = << >>
    /\ reader = NewReader
    /\ got = << >>
    /\ DispatcherUnused
    /\ LinkUnused
    /\ ReplayUnused
    /\ WriterUnused
    /\ SendUnused
    /\ StreamUnused
    /\ ProcUnused
    /\ sreader = NewStreamReader
    /\ vin \in SeqsUpTo(DecoderFrames, MaxPackets) \ {<< >>}
    /\ decoder = NewDecoder
    /\ vout = << >>
    /\ received = << >>

DecoderNext == _DecoderComponent_run \/ ReadDecodePipeline_get

DecoderSpec == DecoderInit /\ [][DecoderNext]_vars

(***************************************************************************)
(* The nested-parse specification: a VIDEO_DATA packet whose body is any   *)
(* byte string, followed by two packets.                                   *)
(***************************************************************************)
\* A frame packet body with the length of the encoded frame given as n
FrameBody(n, rest) == add_int(add_int(add_int(<< >>, 1), FULL_FRAME), n) \o rest

\* Bodies: the frame packet of the factory; an encoded frame shorter than
\* the rest of the body; one longer than it; a body that ends before the
\* length of the encoded frame
VideoBodies ==
    { FrameBody(2, << 7, 8 >>), FrameBody(0, << 2, 0 >>), FrameBody(11, << 7, 8 >>),
      add_int(add_int(<< >>, 1), FULL_FRAME) }

\* tag, width, height and the length-prefixed body
VideoPacketOf(body) == add_bytes(add_int(add_int(add_byte(<< >>, VIDEO_DATA), 3), 4), body)

NestedInputs ==
    { << Raw(VideoPacketOf(body)), Pkt(MouseMoveData(0, 258)), Pkt(MouseMoveData(0, 258)) >> :
        body \in VideoBodies }

NestedInit ==
    /\ sent \in NestedInputs
    /\ wire = StreamBytes(sent)
    /\ reader = NewReader
    /\ got = << >>
    /\ LinkUnused
    /\ DispatcherUnused
    /\ AppUnused

NestedSpec == NestedInit /\ [][ReaderNext]_vars

(***************************************************************************)
(* The read-decode pipeline: _StreamReaderComponent over a reader whose    *)
(* connection delivers a stream of FULL_FRAME VideoData packets, the       *)
(* decoder behind it and the renderer polling ReadDecodePipeline.get.      *)
(***************************************************************************)
\* What read_packet hands to its caller on return: the pair
\* (packet_type, data object), with the class Python knows it by
ReadPacketValue(c) == [class |-> "tuple", v |-> << c.out.type, c.out >>]

\* isinstance(object_data, cls)
isinstance(object_data, cls) == object_data.class = cls

\* queue.Queue(maxsize=1) of _StreamReaderComponent.output_queue
InputMaxsize == 1

\* _StreamReaderComponent.run, what a pass of the loop does with the
\* result of read_packet: a VideoData object goes on to
\* output_queue.put(object_data), anything else is passed over; run()
\* catches InvalidPacketType only, so a ValueError ends the thread
StreamRead(c) ==
    /\ reader' = c.r
    /\ got' = got \o Outcome(c)
    /\ sreader' = CASE c.res = "return" /\ isinstance(ReadPacketValue(c), "VideoData") ->
                          [pc |-> "put", item |-> ReadPacketValue(c).v]
                    [] c.res = "ValueError" -> [sreader EXCEPT !.pc = "dead"]
                    [] OTHER -> sreader

\* _StreamReaderComponent.run, one step of the thread: a pass of the loop
\* calls read_packet, or the thread is inside output_queue.put, which
\* returns once the queue has a free slot
_StreamReaderComponent_run ==
    /\ CASE sreader.pc = "run" ->
                /\ reader.pc = "idle"
                /\ StreamRead(read_packet([reader EXCEPT !.pc = "tag"]))
                /\ UNCHANGED vin
         [] sreader.pc = "put" ->
                /\ Len(vin) < InputMaxsize
                /\ vin' = Append(vin, sreader.item)
                /\ sreader' = [pc |-> "run", item |-> << >>]
                /\ UNCHANGED << reader, got >>
         [] sreader.pc = "dead" -> FALSE
    /\ UNCHANGED << sent, wire, linkVars, streamVars, procVars, sendVars, dispatchVars, replayVars, writerVars,
                    decoder, vout, received >>

\* connection.read(buffer_size) returns the next k bytes to the read_packet
\* call the stream reader waits in
_StreamReaderComponent_read ==
    /\ sreader.pc = "run"
    /\ reader.pc \in {"tag", "ensure", "body"}
    /\ wire # << >>
    /\ \E k \in 1 .. Min(BufferSize, Len(wire)) :
          /\ StreamRead(read_packet(_fill_buffer(reader, SubSeq(wire, 1, k))))
          /\ wire' = SubSeq(wire, k + 1, Len(wire))
    /\ UNCHANGED << sent, linkVars, streamVars, procVars, sendVars, dispatchVars, replayVars, writerVars,
                    vin, decoder, vout, received >>

PipelineFrames == { VideoData(1, 1, 1, FULL_FRAME, zlib_compress(p)) : p \in Pixels }

PipelineInputs ==
    { [i \in 1 .. Len(ds) |-> Pkt(ds[i])] : ds \in SeqsUpTo(PipelineFrames, MaxPackets) \ {<< >>} }

PipelineInit ==
    /\ sent \in PipelineInputs
    /\ wire = StreamBytes(sent)
    /\ reader = NewReader
    /\ got = << >>
    /\ DispatcherUnused
    /\ LinkUnused
    /\ AppUnused

PipelineNext ==
    \/ _StreamReaderComponent_run
    \/ _StreamReaderComponent_read
    \/ _DecoderComponent_run
    \/ ReadDecodePipeline_get

PipelineSpec == PipelineInit /\ [][PipelineNext]_vars

(***************************************************************************)
(* The writer: pwrite.py.  Time is counted in tenths of a second; one      *)
(* thread calls write_packet on a SocketDataWriter (the event loop of the  *)
(* control agent, or the send stage of the capture pipeline).              *)
(***************************************************************************)
MaxTime == 13

\* The number of screen grabs and of stop() calls considered
MaxFrames == 2

MaxStopCalls == 2
MaxLog == 4

\* The default of SocketDataWriter.__init__: sync_packet_timeout=0.5
sync_packet_timeout == 5

\* The test write_packet makes before it injects a Sync packet, with t the
\* value of time.time() and last the value of _last_sync_packet
SyncDueNever(t, last) == FALSE

SyncDue(t, last) == t - last > sync_packet_timeout

\* The input events the network commands (command.py) make packets of
WriterData == { MouseClickData(100, 200, LEFT, PRESS), MouseMoveData(0, 258) }

\* The packets handed to the writer
WriterPackets == { Encode(d) : d \in WriterData }

\* What output_stream.write got, with the time at which write_packet made
\* it (a Sync packet carries the value given to _last_sync_packet) and the
\* data the packet was built from (none for a Sync packet)
Written(t, d, bytes) == [t |-> t, d |-> d, bytes |-> bytes]

WriterInit ==
    /\ sent = << >>
    /\ wire = << >>
    /\ reader = NewReader
    /\ got = << >>
    /\ DispatcherUnused
    /\ LinkUnused
    /\ ReplayUnused
    /\ PipeUnused
    /\ WriterUnused
    /\ SendUnused
    /\ StreamUnused
    /\ ProcUnused

\* time passes
Tick ==
    /\ now < MaxTime
    /\ now' = now + 1
    /\ UNCHANGED << readerVars, linkVars, streamVars, procVars, sendVars, dispatchVars, replayVars, pipeVars,
                    last_sync_packet, outlog, wlink >>

\* The reconnect thread has established the link: connected.setv(True),
\* from which on get_output_stream() returns a stream
Connect ==
    /\ ~wlink
    /\ wlink' = setv(wlink, TRUE)
    /\ UNCHANGED << readerVars, linkVars, streamVars, procVars, sendVars, dispatchVars, replayVars, pipeVars,
                    now, last_sync_packet, outlog >>

\* A Sync packet, and nothing behind it
write_packet_writes_sync_alone(output_stream, inject, t, data) ==
    IF inject THEN << Written(t, NoData, SYNC_PACKET) >>
    ELSE IF output_stream THEN << Written(t, data, Encode(data)) >> ELSE << >>

\* The packet is written whether there is an output stream or not
write_packet_writes_unconnected(output_stream, inject, t, data) ==
    (IF inject THEN << Written(t, NoData, SYNC_PACKET) >> ELSE << >>)
    \o << Written(t, data, Encode(data)) >>

\* What one write_packet call hands to output_stream.write: the Sync
\* packet if one is injected, then the packet if there is a stream
write_packet_writes(output_stream, inject, t, data) ==
    (IF inject THEN << Written(t, NoData, SYNC_PACKET) >> ELSE << >>)
    \o (IF output_stream THEN << Written(t, data, Encode(data)) >> ELSE << >>)

\* SocketDataWriter.write_packet(packet) for the packet of data.
\* time.time() is read twice: for the test (the time of the call, now)
\* and, d later, for the new value of _last_sync_packet.  Without an
\* output stream nothing is written and _last_sync_packet is left alone.
WritePacket(data, d) ==
    LET output_stream == getv(wlink)
        inject == SyncDue(now, last_sync_packet) /\ output_stream
        t == IF inject /\ now + d <= MaxTime THEN now + d ELSE now
    IN  /\ now' = t
        /\ last_sync_packet' = IF inject THEN t ELSE last_sync_packet
        /\ outlog' = outlog \o write_packet_writes(output_stream, inject, t, data)

\* A network command is built from an input event and executed:
\* SocketDataWriter.write_packet(packet)
SocketDataWriter_write_packet ==
    /\ Len(outlog) + 2 <= MaxLog
    /\ \E data \in WriterData, d \in {0, 1} : WritePacket(data, d)
    /\ UNCHANGED << readerVars, linkVars, streamVars, procVars, sendVars, dispatchVars, replayVars, pipeVars, wlink >>

WriterNext == Tick \/ Connect \/ SocketDataWriter_write_packet

WriterSpec == WriterInit /\ [][WriterNext]_vars

(***************************************************************************)
(* pipeline.py, encode.py: the capture-encode-send pipeline.  Each of the  *)
(* three component threads runs its loop one step at a time; the caller    *)
(* starts and stops the pipeline.                                          *)
(***************************************************************************)
\* A grab of the screen that fails: self._sct.grab(monitor) raises
GrabFails == << -1 >>

\* The size of the monitor: get_monitor_width(), get_monitor_height()
capture_width == 1

capture_height == 1

\* zlib.compress(frame) at the default level, for the frames of one pixel
\* the screen shows and for the frame of zeros
zlib_compress_default(frame) ==
    CASE frame = << 9, 8, 7 >> -> << 120, 156, 227, 228, 96, 7, 0, 0, 53, 0, 25 >>
      [] frame = << 250, 8, 7 >> -> << 120, 156, 251, 197, 193, 14, 0, 3, 8, 1, 10 >>
      [] frame = << 0, 0, 0 >> -> << 120, 156, 99, 96, 96, 0, 0, 0, 3, 0, 1 >>

\* DefaultEncoder.ID
DefaultEncoder_ID == 1

\* The fps CaptureEncodeSendPipeline.__init__ builds its encoder with
DefaultEncoderFps == 1

\* No frame is a full frame
FullFrameDueNever(count, fps) == FALSE

\* self._frame_count % self._fps == 0
FullFrameDue(count, fps) == count % fps = 0

\* DefaultEncoder.encode_frame(width, height, frame) with _frame_count =
\* count: the outcomes it can have.  reshape raises ValueError for a
\* frame that has not width * height * 3 bytes.  In the other branch the difference is taken between _last_frame,
\* which was just set to the frame, and the frame: either cv2 raises for
\* its arguments or the packet is a DIFF_FRAME of zeros.
encode_frame(count, fps, width, height, frame) ==
    IF Len(frame) # width * height * 3
    THEN { [res |-> "ValueError", data |-> << >>, count |-> count] }
    ELSE IF FullFrameDue(count, fps)
    THEN { [res |-> "return", count |-> 1,
            data |-> VideoFrameDataPacket(DefaultEncoder_ID, FULL_FRAME,
                                          zlib_compress_default(frame))] }
    ELSE { [res |-> "return", count |-> count + 1,
            data |-> VideoFrameDataPacket(DefaultEncoder_ID, DIFF_FRAME,
                                          zlib_compress_default([i \in 1 .. Len(frame) |-> 0]))],
           [res |-> "cv2.error", data |-> << >>, count |-> count + 1] }

\* The data object of the packet
\* VideoContainerDataPacketFactory.create_packet(width, height, encoded_data)
FramePacketData(width, height, encoded_data) ==
    VideoData(width, height, read_int(encoded_data, 0), read_int(encoded_data, 4),
              read_bytes(encoded_data, 12, read_int(encoded_data, 8)))

\* Queue(maxsize=1) of the capture and of the encoder component
SendMaxsize == 1

\* The capture thread leaves the event set
EventLeftSet == TRUE

\* self._sync_event.clear(): the state the capture thread leaves the event
\* in after its put
EventCleared == FALSE

\* _CaptureComponent.run, one step.  capture_screen takes the next grab of
\* the screen and returns its rgb bytes; the exception of a grab that
\* fails ends the thread.  put waits while the queue is full.
_CaptureComponent_run ==
    /\ CASE capturer.pc = "loop" ->
                /\ capturer' = [capturer EXCEPT !.pc = IF capturer.running THEN "wait" ELSE "done"]
                /\ UNCHANGED << screen, cqueue, sync_event >>
         [] capturer.pc = "wait" ->
                IF sync_event
                THEN /\ screen # << >>
                     /\ capturer' = IF Head(screen) = GrabFails
                                    THEN [capturer EXCEPT !.pc = "dead"]
                                    ELSE [capturer EXCEPT !.pc = "put", !.item = Head(screen)]
                     /\ screen' = Tail(screen)
                     /\ UNCHANGED << cqueue, sync_event >>
                ELSE /\ capturer' = [capturer EXCEPT !.pc = "loop"]
                     /\ UNCHANGED << screen, cqueue, sync_event >>
         [] capturer.pc = "put" ->
                /\ Len(cqueue) < SendMaxsize
                /\ cqueue' = Append(cqueue, capturer.item)
                /\ capturer' = [capturer EXCEPT !.pc = "clear", !.item = << >>]
                /\ UNCHANGED << screen, sync_event >>
         [] capturer.pc = "clear" ->
                /\ sync_event' = EventCleared
                /\ capturer' = [capturer EXCEPT !.pc = "loop"]
                /\ UNCHANGED << screen, cqueue >>
         [] capturer.pc \in {"new", "done", "dead"} -> FALSE
    /\ UNCHANGED << readerVars, linkVars, streamVars, procVars, dispatchVars, replayVars, pipeVars, writerVars,
                    encoder, streamer, equeue, pipeline >>

\* _EncoderComponent.run, one step.  get(timeout=SLEEP_TIME) raises
\* queue.Empty on an empty queue; an error of encode_frame ends the thread.
_EncoderComponent_run ==
    /\ CASE encoder.pc = "loop" ->
                /\ encoder' = [encoder EXCEPT !.pc = IF encoder.running THEN "get" ELSE "done"]
                /\ UNCHANGED << cqueue, equeue >>
         [] encoder.pc = "get" ->
                IF cqueue = << >>
                THEN /\ encoder' = [encoder EXCEPT !.pc = "loop"]
                     /\ UNCHANGED << cqueue, equeue >>
                ELSE /\ \E o \in encode_frame(encoder._frame_count, DefaultEncoderFps,
                                              capture_width, capture_height, Head(cqueue)) :
                           encoder' = [encoder EXCEPT
                                          !.pc = IF o.res # "return" THEN "dead"
                                                 ELSE IF o.data # << >> THEN "put" ELSE "loop",
                                          !.item = o.data,
                                          !._frame_count = o.count]
                     /\ cqueue' = Tail(cqueue)
                     /\ UNCHANGED equeue
         [] encoder.pc = "put" ->
                /\ Len(equeue) < SendMaxsize
                /\ equeue' = Append(equeue, encoder.item)
                /\ encoder' = [encoder EXCEPT !.pc = "loop", !.item = << >>]
                /\ UNCHANGED cqueue
         [] encoder.pc \in {"new", "done", "dead"} -> FALSE
    /\ UNCHANGED << readerVars, linkVars, streamVars, procVars, dispatchVars, replayVars, pipeVars, writerVars,
                    screen, capturer, streamer, sync_event, pipeline >>

\* _StreamSenderComponent.run, one step: get, _sync_event.set(), and
\* write_packet of the container packet.  handled records, for each frame
\* written, whether there was an output stream.
_StreamSenderComponent_run ==
    /\ CASE streamer.pc = "loop" ->
                /\ streamer' = [streamer EXCEPT !.pc = IF streamer.running THEN "get" ELSE "done"]
                /\ UNCHANGED << equeue, sync_event, writerVars >>
         [] streamer.pc = "get" ->
                IF equeue = << >>
                THEN /\ streamer' = [streamer EXCEPT !.pc = "loop"]
                     /\ UNCHANGED << equeue, sync_event, writerVars >>
                ELSE /\ streamer' = [streamer EXCEPT !.pc = "set", !.item = Head(equeue)]
                     /\ equeue' = Tail(equeue)
                     /\ UNCHANGED << sync_event, writerVars >>
         [] streamer.pc = "set" ->
                /\ sync_event' = TRUE
                /\ streamer' = [streamer EXCEPT !.pc = "write"]
                /\ UNCHANGED << equeue, writerVars >>
         [] streamer.pc = "write" ->
                LET data == FramePacketData(capture_width, capture_height, streamer.item)
                IN  /\ \E d \in {0, 1} : WritePacket(data, d)
                    /\ streamer' = [streamer EXCEPT
                                       !.pc = "loop", !.item = << >>,
                                       !.handled = Append(@, [data |-> data,
                                                              output_stream |-> getv(wlink)])]
                    /\ UNCHANGED << equeue, sync_event, wlink >>
         [] streamer.pc \in {"new", "done"} -> FALSE
    /\ UNCHANGED << readerVars, linkVars, streamVars, procVars, dispatchVars, replayVars, pipeVars,
                    screen, capturer, encoder, cqueue, pipeline >>

\* AbstractPipeline.start(): the three threads are started, or
\* RuntimeError("Pipeline already started.") when _threads is not None
AbstractPipeline_start ==
    /\ pipeline.pc = "idle"
    /\ IF pipeline._threads = "None"
       THEN /\ pipeline' = [pipeline EXCEPT !._threads = "started"]
            /\ capturer' = [capturer EXCEPT !.pc = "loop"]
            /\ encoder' = [encoder EXCEPT !.pc = "loop"]
            /\ streamer' = [streamer EXCEPT !.pc = "loop"]
       ELSE /\ pipeline' = [pipeline EXCEPT !.raised = "Pipeline already started."]
            /\ UNCHANGED << capturer, encoder, streamer >>
    /\ UNCHANGED << readerVars, linkVars, streamVars, procVars, dispatchVars, replayVars, pipeVars, writerVars,
                    screen, cqueue, equeue, sync_event >>

\* A thread has ended: join returns
Ended(c) == c.pc \in {"done", "dead"}

\* AbstractPipeline.stop(), one step: the test of len(self._threads), the
\* stop() of each component, the join of each thread, _threads = [].
\* len(None) raises TypeError; with _threads = [] the call raises
\* RuntimeError("Pipeline did not started").
AbstractPipeline_stop ==
    /\ CASE pipeline.pc = "idle" ->
                /\ pipeline' =
                      CASE pipeline._threads = "None" ->
                              [pipeline EXCEPT !.raised = "TypeError", !.stops = @ + 1]
                        [] pipeline._threads = "started" ->
                              [pipeline EXCEPT !.pc = "stop1", !.stops = @ + 1]
                        [] pipeline._threads = "empty" ->
                              [pipeline EXCEPT !.raised = "Pipeline did not started",
                                               !.stops = @ + 1]
                /\ pipeline.stops < MaxStopCalls
                /\ UNCHANGED << capturer, encoder, streamer, sync_event >>
         [] pipeline.pc = "stop1" ->
                /\ capturer' = [capturer EXCEPT !.running = FALSE]
                /\ sync_event' = TRUE
                /\ pipeline' = [pipeline EXCEPT !.pc = "stop2"]
                /\ UNCHANGED << encoder, streamer >>
         [] pipeline.pc = "stop2" ->
                /\ encoder' = [encoder EXCEPT !.running = FALSE]
                /\ pipeline' = [pipeline EXCEPT !.pc = "stop3"]
                /\ UNCHANGED << capturer, streamer, sync_event >>
         [] pipeline.pc = "stop3" ->
                /\ streamer' = [streamer EXCEPT !.running = FALSE]
                /\ sync_event' = TRUE
                /\ pipeline' = [pipeline EXCEPT !.pc = "join1"]
                /\ UNCHANGED << capturer, encoder >>
         [] pipeline.pc = "join1" ->
                /\ Ended(capturer)
                /\ pipeline' = [pipeline EXCEPT !.pc = "join2"]
                /\ UNCHANGED << capturer, encoder, streamer, sync_event >>
         [] pipeline.pc = "join2" ->
                /\ Ended(encoder)
                /\ pipeline' = [pipeline EXCEPT !.pc = "join3"]
                /\ UNCHANGED << capturer, encoder, streamer, sync_event >>
         [] pipeline.pc = "join3" ->
                /\ Ended(streamer)
                /\ pipeline' = [pipeline EXCEPT !.pc = "idle", !._threads = "empty"]
                /\ UNCHANGED << capturer, encoder, streamer, sync_event >>
    /\ UNCHANGED << readerVars, linkVars, streamVars, procVars, dispatchVars, replayVars, pipeVars, writerVars,
                    screen, cqueue, equeue >>

\* The grabs of the screen to come: frames of one pixel, or a grab that
\* fails
ScreenInputs == [1 .. MaxFrames -> Pixels \cup {GrabFails}]

SendInit ==
    /\ sent = << >>
    /\ wire = << >>
    /\ reader = NewReader
    /\ got = << >>
    /\ DispatcherUnused
    /\ LinkUnused
    /\ ReplayUnused
    /\ PipeUnused
    /\ now = 0
    /\ last_sync_packet = 0
    /\ outlog = << >>
    /\ wlink \in BOOLEAN
    /\ screen \in ScreenInputs
    /\ capturer = NewCapture
    /\ encoder = NewEncoder
    /\ streamer = NewSender
    /\ cqueue = << >>
    /\ equeue = << >>
    /\ sync_event = TRUE
    /\ pipeline = NewPipeline
    /\ StreamUnused
    /\ ProcUnused

SendNext ==
    \/ AbstractPipeline_start
    \/ AbstractPipeline_stop
    \/ _CaptureComponent_run
    \/ _EncoderComponent_run
    \/ _StreamSenderComponent_run
    \/ Connect

SendSpec == SendInit /\ [][SendNext]_vars

(***************************************************************************)
(* connection.py: the buffers of InputStream and OutputStream.  Each       *)
(* stream has its own thread (run) and a caller (read, write); the two     *)
(* share the stream's _buffer, an io.BytesIO.                              *)
(***************************************************************************)
\* InputStream.read(), one step: `return self._buffer.getvalue()`, then,
\* in the finally clause, _flush(): self._buffer = io.BytesIO()
InputStream_read ==
    /\ CASE istream.pc = "idle" ->
                istream' = [istream EXCEPT !.pc = "flush", !.value = istream.buf.val]
         [] istream.pc = "flush" ->
                istream' = [istream EXCEPT !.pc = "idle", !.value = << >>,
                                           !.buf = BytesIO,
                                           !.returned = @ \o istream.value]
    /\ UNCHANGED << readerVars, linkVars, dispatchVars, replayVars, pipeVars, writerVars,
                    sendVars, procVars, ostream >>

\* InputStream.run, one pass in which recv returns data:
\* self._buffer.write(data)
InputStream_run ==
    /\ istream.incoming # << >>
    /\ \E k \in 1 .. Len(istream.incoming) :
          LET data == SubSeq(istream.incoming, 1, k)
          IN  istream' = [istream EXCEPT
                             !.buf = BytesIO_write(@, data),
                             !.incoming = SubSeq(@, k + 1, Len(@)),
                             !.received = @ \o data]
    /\ UNCHANGED << readerVars, linkVars, dispatchVars, replayVars, pipeVars, writerVars,
                    sendVars, procVars, ostream >>

\* self._buffer.seek(0)
SeekStart(b) == [b EXCEPT !.pos = 0]

\* OutputStream.write(data): self._buffer.write(data)
OutputStream_write ==
    /\ ostream.towrite # << >>
    /\ ostream' = [ostream EXCEPT
                      !.buf = BytesIO_write(@, Head(ostream.towrite)),
                      !.towrite = Tail(@),
                      !.written = @ \o Head(ostream.towrite)]
    /\ UNCHANGED << readerVars, linkVars, dispatchVars, replayVars, pipeVars, writerVars,
                    sendVars, procVars, istream >>

\* OutputStream.run, one step.  With bytes in the buffer,
\* socket.send(self._buffer.getvalue()) takes the first sent >= 1 of them
\* (when it takes none it raises BlockingIOError and the loop starts again);
\* then _flush(sent), line by line.
OutputStream_run ==
    /\ CASE ostream.pc = "loop" ->
                /\ Len(ostream.buf.val) > 0
                /\ \E k \in 1 .. Len(ostream.buf.val) :
                      ostream' = [ostream EXCEPT
                                     !.pc = "remaining", !.sent = k,
                                     !.handed = @ \o SubSeq(ostream.buf.val, 1, k)]
         [] ostream.pc = "remaining" ->
                ostream' = [ostream EXCEPT
                               !.pc = "new",
                               !.remaining_data =
                                   SubSeq(ostream.buf.val, ostream.sent + 1, Len(ostream.buf.val))]
         [] ostream.pc = "new" ->
                ostream' = [ostream EXCEPT !.pc = "write", !.buf = BytesIO]
         [] ostream.pc = "write" ->
                ostream' = [ostream EXCEPT
                               !.pc = "seek",
                               !.buf = BytesIO_write(@, ostream.remaining_data)]
         [] ostream.pc = "seek" ->
                ostream' = [ostream EXCEPT
                               !.pc = "loop", !.sent = 0, !.remaining_data = << >>,
                               !.buf = SeekStart(@)]
    /\ UNCHANGED << readerVars, linkVars, dispatchVars, replayVars, pipeVars, writerVars,
                    sendVars, procVars, istream >>

\* The bytes the socket delivers, and the data the caller writes
StreamBytesIn == { << 1, 2, 3 >>, << 1, 2, 3, 4 >> }

StreamWrites == { << << 1, 2 >>, << 3 >> >>, << << 1 >>, << 2, 3 >>, << 4 >> >> }

StreamInit ==
    /\ sent = << >>
    /\ wire = << >>
    /\ reader = NewReader
    /\ got = << >>
    /\ DispatcherUnused
    /\ LinkUnused
    /\ ReplayUnused
    /\ PipeUnused
    /\ WriterUnused
    /\ SendUnused
    /\ ProcUnused
    /\ \E incoming \in StreamBytesIn : istream = NewInputStream(incoming)
    /\ \E towrite \in StreamWrites : ostream = NewOutputStream(towrite)

StreamNext == InputStream_read \/ InputStream_run \/ OutputStream_write \/ OutputStream_run

StreamSpec == StreamInit /\ [][StreamNext]_vars

SameData(a, b) == a.type = b.type /\ a.f = b.f

\* The data objects the calls returned so far are the first ones of ds
ReturnedPrefixOf(ds) ==
    /\ Len(got) <= Len(ds)
    /\ \A i \in 1 .. Len(got) : got[i].res = "return" /\ SameData(got[i].d, ds[i])

\* The connection has delivered everything and the reader waits for more
Drained == wire = << >> /\ reader.pc \in {"tag", "ensure", "body"}

\* C1: a stream of N >= 1 factory-built packets is read back by successive
\* read_packet calls as the same kinds and payloads, in order: what has
\* been returned is always the first packets sent, and once the stream is
\* drained all of them have been returned.
C1_FramingRoundTrip ==
    IsFraming(sent) =>
        LET ds == [i \in 1 .. Len(sent) |-> sent[i].d]
        IN  /\ ReturnedPrefixOf(ds)
            /\ Drained => Len(got) = Len(ds)

\* C2: a reader fed S || SYNC_PACKET || encode(p1) || encode(p2) returns p1
\* and then p2 and no packet built from the bytes of S, and raises nothing.
C2_Resync ==
    IsResync(sent) =>
        LET ds == << sent[3].d, sent[4].d >>
        IN  /\ ReturnedPrefixOf(ds)
            /\ Drained => Len(got) = Len(ds)

(***************************************************************************)
(* The link: connection.py and thread.py.                                  *)
(***************************************************************************)
\* A read or a write on the byte stream has failed
IOFailed == (inS.present /\ inS.closed) \/ (outS.present /\ outS.closed)

\* The link holds a connected socket
LinkUp == connected /\ socket # 0 /\ sstate[socket] = "conn"

\* C4: whenever the link is connected, has not been stopped, and a read or
\* a write on its byte stream has failed, the connection state eventually
\* leaves Connected (is_connected() returns false), unless the user stops
\* the link.
C4_LinkLossDetected ==
    (running /\ stopCalls = 0 /\ connected /\ IOFailed) ~> (~connected \/ stopCalls > 0)

\* C5: after the peer has died and been started again while the link was
\* connected to it, the link eventually holds a connection to the
\* restarted peer (unless the peer goes down again or the user stops the
\* link).
C5_Reconnect ==
    (running /\ stopCalls = 0 /\ connected /\ socket # 0 /\ peerUp /\ sgen[socket] < peerGen)
        ~> (SockLive(socket) \/ ~peerUp \/ stopCalls > 0)

\* C6: start() launches the reconnect thread once; every later start()
\* raises an error and launches nothing.
C6_StartTwiceRaises ==
    /\ threadsStarted <= 1
    /\ startCalls >= 1 => (threadsStarted = 1 /\ startErrors = startCalls - 1)

\* C6 witness: start() has been called twice and the second call raised
C6_SecondStartRaised == startCalls = 2 /\ startErrors = 1 /\ threadsStarted = 1

\* C7: when the last call that returned is stop(), the steps of a further
\* stop() leave the socket, the running flag and the thread as they were.
C7_StopIdempotent ==
    [][(ulast = "stop" /\ (stopCalls' # stopCalls \/ upc' # upc))
          => (socket' = socket /\ running' = running /\ tstate' = tstate /\ sstate' = sstate)]_vars

\* start(), stop(), start() have been called in this order and returned
Restarted == startCalls = 2 /\ stopCalls = 1 /\ ulast = "start" /\ upc = "idle"

\* C8: after start(), stop(), start() with the peer up, the link
\* eventually holds a connected socket again (unless the peer goes down or
\* the user calls stop() again).
C8_Restart == (Restarted /\ peerUp) ~> (LinkUp \/ ~peerUp \/ ~Restarted)

\* C9: when stop() waits for a server-role thread that is blocked in
\* accept() and no peer is up, stop() eventually returns with the listening
\* socket closed (unless a peer comes up).
C9_CancelAccept ==
    (role = "server" /\ tpc = "accept" /\ upc = "join" /\ ~peerUp)
        ~> ((upc = "idle" /\ lsock = "closed") \/ peerUp)

\* The connection state is Connected: the reconnect thread has made the
\* connection, stop() has not closed it, and no read or write on its byte
\* stream has failed
Connected == LinkUp /\ ~IOFailed

\* C10: reads and writes only succeed in the Connected state: a step in
\* which bytes are delivered to a reader or a packet handed to a writer is
\* accepted for transmission is taken only while the link is Connected.
C10_IOOnlyWhenConnected ==
    [][(delivered' # delivered \/ accepted' # accepted) => Connected]_vars

\* The data objects returned, in order
Returned == [i \in 1 .. Len(got) |-> got[i].d]

IsPrefix(a, b) == Len(a) <= Len(b) /\ \A i \in 1 .. Len(a) : SameData(a[i], b[i])

\* C3: with bytes injected between two packets of a stream that goes on
\* with a packet, a Sync packet and a packet, the dispatcher thread stays
\* alive, no read ends in an error, and the only data objects it queues are
\* the packet sent before the injected bytes and then the packets the
\* writer sent after them (at the latest from the one after the Sync
\* packet on).
C3_CorruptionRecovery ==
    IsCorrupt(sent) =>
        /\ dispatcher = "alive"
        /\ \A i \in 1 .. Len(got) : got[i].res = "return"
        /\ \/ IsPrefix(Returned, << sent[1].d, sent[5].d >>)
           \/ IsPrefix(Returned, << sent[1].d, sent[3].d, sent[5].d >>)

\* The results of the calls that did not end in NoConnection
AfterDrop == SelectSeq(got, LAMBDA g : g.res # "NoConnection")

\* C11: after the connection broke in the middle of a packet, the calls of
\* read_packet return the packet the next connection delivers and nothing
\* else: no data object and no error is made of bytes the reader held when
\* the connection broke.
C11_FlushOnDisconnect ==
    IsDrop(sent) =>
        /\ Len(AfterDrop) <= 1
        /\ \A i \in 1 .. Len(AfterDrop) :
              AfterDrop[i].res = "return" /\ SameData(AfterDrop[i].d, sent[3].d)
        /\ (Drained /\ Len(got) > 0) => Len(AfterDrop) = 1

\* The payloads of kind k the dispatcher read, and those the replay task
\* executed, in order
ReadOfKind(k) == SelectSeq(Returned, LAMBDA d : d.type = k)

ExecutedOfKind(k) == SelectSeq(executed, LAMBDA d : d.type = k)

\* The dispatcher has ended or has read the stream to its end, and the
\* replay task has nothing left it could do
ReplayQuiescent ==
    /\ dispatcher = "dead" \/ (wire = << >> /\ reader.pc = "tag")
    /\ ~replayer.alive \/ \A k \in InputKinds : queues[k] = << >>

\* C12: for each input kind the payloads executed are the first of the
\* payloads read, in the same order and each once, and when the stream is
\* read to its end and the replay task has no more to do they are all of
\* them.
C12_ReplayOrder ==
    \A k \in InputKinds :
        /\ IsPrefix(ExecutedOfKind(k), ReadOfKind(k))
        /\ ReplayQuiescent => Len(ExecutedOfKind(k)) = Len(ReadOfKind(k))

DecoderBlocked == decoder.pc = "put" /\ Len(vout) >= OutputMaxsize

\* C14: when video packets arrive faster than the renderer polls, the
\* decoder's output queue never holds more than one (video_data, frames)
\* item and the decode stage never blocks waiting for the renderer (the
\* excess item is dropped).
C14_Backpressure == Len(vout) <= 1 /\ ~DecoderBlocked

\* Everything sent has been read and every stage waits for work
PipelineQuiescent ==
    /\ Drained
    /\ sreader.pc = "run"
    /\ vin = << >>
    /\ decoder.pc = "get"
    /\ vout = << >>

\* C15: when the producer has sent a finite sequence of FULL_FRAME
\* VideoData packets and the renderer keeps polling, then once the
\* pipeline has worked off the stream the renderer has received at least
\* one and at most as many items as were sent, and the last one it
\* received is the last packet sent with the frame decoded from it.
C15_HappyPath ==
    PipelineQuiescent =>
        /\ received # << >>
        /\ Len(received) <= Len(sent)
        /\ SameData(Last(received)[1], Last(sent).d)
        /\ Last(received)[2] = << << zlib_decompress(Last(sent).d.f[5]).frame >> >>

\* The places of the Sync packets in what the writer wrote
SyncsWritten == { i \in 1 .. Len(outlog) : outlog[i].d = NoData }

\* One second, the sync interval the specification names
SpecSyncInterval == 2 * sync_packet_timeout

\* C16: the writer injects a Sync packet at most once per second: no two
\* injected Sync packets are less than one sync interval (1 s) apart.
C16_AtMostOncePerSecond ==
    \A i, j \in SyncsWritten : i < j => outlog[j].t - outlog[i].t >= SpecSyncInterval

\* C17: while the link is connected and packets are written, every packet
\* the writer wrote follows a Sync packet injected at most one sync
\* interval earlier (or was written within one interval of the writer's
\* construction): a write_packet call made more than one sync interval
\* after the previous injection emits a Sync packet before its packet.
C17_SyncCadence ==
    \A i \in 1 .. Len(outlog) :
        outlog[i].bytes \in WriterPackets =>
            \/ outlog[i].t <= sync_packet_timeout
            \/ \E j \in SyncsWritten :
                  j < i /\ outlog[i].t - outlog[j].t <= sync_packet_timeout

\* A second Sync packet was injected, right before the packet of its call
C17_SyncBeforePacket ==
    \E i, j \in SyncsWritten :
        /\ i < j
        /\ j < Len(outlog)
        /\ outlog[j + 1].bytes \in WriterPackets
        /\ outlog[j + 1].t = outlog[j].t

\* The click of the wire-format example
ExampleClick == MouseClickData(100, 200, LEFT, PRESS)

\* C18: encoding MouseClick{x=100, y=200, button=LEFT, state=PRESS}
\* produces exactly the bytes 02 01 01 00 00 00 64 00 00 00 C8 (tag,
\* button, state, big-endian u32 x, big-endian u32 y).
C18_ClickBytesAsStated ==
    \A i \in 1 .. Len(outlog) :
        outlog[i].d = ExampleClick =>
            outlog[i].bytes = << 2, 1, 1, 0, 0, 0, 100, 0, 0, 0, 200 >>

\* C19: the Sync packet the writer injects is exactly the 13 bytes
\* 00 00 00 00 08 00 01 00 01 00 01 00 01 (tag 0, u32 length 8, the 8-byte
\* sync sequence), and the embedded 8 bytes are exactly the sequence the
\* reader's resync scans for, which it finds behind the tag and the length.
C19_SyncPacketContents ==
    \A i \in SyncsWritten :
        /\ outlog[i].bytes = << 0, 0, 0, 0, 8, 0, 1, 0, 1, 0, 1, 0, 1 >>
        /\ SubSeq(outlog[i].bytes, 6, 13) = sync_packet_bytes
        /\ Find(outlog[i].bytes, sync_packet_bytes) = 5

\* The writer has injected its first Sync packet
C19_FirstSyncInjected == Cardinality(SyncsWritten) = 1

\* C20: no error aborts the dispatcher loop: whatever bytes are received,
\* a field out of range behind a valid tag included, the thread of
\* PacketProcessor.run is still running (stop() is not called here).
C20_DispatcherSurvives == dispatcher # "dead"

\* C21: decoder errors are not fatal: whatever VideoData the decoder
\* strategy is given (a blob it cannot decompress, a frame of the wrong
\* size, a DIFF_FRAME without a previous frame), the decode thread does not
\* terminate.
C21_DecoderSurvives == decoder.pc # "dead"

\* C22: input replay survives bad events: whatever MouseMove, MouseClick or
\* KeyEvent payload is executed (any button value), the thread of
\* CommandProcessor.run does not terminate.
C22_ReplaySurvives == replayer.alive

\* Every Sync packet written is followed at once by a packet of the same
\* call
SyncFollowedByPacket ==
    \A i \in SyncsWritten :
        /\ i < Len(outlog)
        /\ outlog[i + 1].d # NoData
        /\ outlog[i + 1].t = outlog[i].t

\* C28: a Sync packet is never written on its own: every Sync packet in
\* what the writer wrote is immediately followed by the packet of the
\* same write_packet call, and nothing is written except by a
\* write_packet call (an idle writer emits nothing).
C28_SyncNeverAlone ==
    /\ [](SyncFollowedByPacket)
    /\ [][outlog' # outlog => SocketDataWriter_write_packet]_vars

\* A Sync packet and, right behind it, the packet of the call were written
\* after the writer had been idle for a while
C28_SyncThenPacket ==
    /\ Len(outlog) = 2
    /\ outlog[1].d = NoData
    /\ outlog[2].d # NoData
    /\ now > outlog[2].t

\* C29: resync keeps reading: the reader in resync whose buffer holds no
\* sync sequence never stops calling connection.read while a sync sequence
\* is still to come, so the sequence is found however far behind the bad
\* tag it arrives.
C29_ResyncKeepsReading ==
    ~(/\ reader.pc = "spin"
      /\ SyncPosition(reader) = -1
      /\ Find(wire, sync_packet_bytes) # -1)

\* C30: decoding a VideoData packet consumes exactly its tag, width,
\* height and length-prefixed body: when read_packet has returned the
\* VideoData, what is left to read starts at the first byte after the
\* body, whatever the body contains.
C30_NestedParseConfined ==
    (Len(got) = 1 /\ got[1].res = "return" /\ reader.pc = "idle")
        => reader.buf \o wire = StreamBytes(Tail(sent))

\* stop() waits in join for a thread that waits in put on a full queue
\* whose consumer has ended
StopHangs ==
    /\ pipeline.pc \in {"join1", "join2", "join3"}
    /\ \/ capturer.pc = "put" /\ Len(cqueue) = SendMaxsize /\ Ended(encoder)
       \/ encoder.pc = "put" /\ Len(equeue) = SendMaxsize /\ Ended(streamer)

\* C23: pipeline stop terminates: from every state of a started pipeline,
\* stop() makes every component thread leave its loop and returns after
\* joining all of them; no thread is left waiting for ever while stop()
\* waits for it.
C23_StopTerminates == ~StopHangs

\* C24: stop() is idempotent: a second stop() after a successful stop()
\* returns without error.
C24_StopIdempotent ==
    ~(pipeline._threads = "empty" /\ pipeline.raised = "Pipeline did not started")

\* Nothing is in flight, the event is clear and nobody is left to set it:
\* the capture thread of the running pipeline polls the event for ever and
\* the grabs to come are never taken
Stalled ==
    /\ pipeline._threads = "started" /\ pipeline.pc = "idle"
    /\ screen # << >>
    /\ capturer.pc \in {"loop", "wait"}
    /\ ~sync_event
    /\ cqueue = << >> /\ equeue = << >>
    /\ encoder.pc \in {"loop", "get", "dead"}
    /\ streamer.pc \in {"loop", "get"}

\* C25: skipped frames do not stall the sender pipeline: after a grab
\* that yielded no image the pipeline, not stopped, goes on to capture
\* later frames: its capture thread has not ended with grabs still to come.
C25_SkipDoesNotStall ==
    ~(pipeline.stops = 0 /\ capturer.pc = "dead" /\ screen # << >>)

\* The data objects of the packets written, Sync packets left out
PacketsWritten ==
    LET ws == SelectSeq(outlog, LAMBDA w : w.d # NoData)
    IN  [i \in 1 .. Len(ws) |-> ws[i].d]

\* The frames the send stage handled while there was an output stream
HandledConnected ==
    LET hs == SelectSeq(streamer.handled, LAMBDA h : h.output_stream)
    IN  [i \in 1 .. Len(hs) |-> hs[i].data]

EncodedInFlight ==
    (IF encoder.pc = "put" THEN {encoder.item} ELSE {})
    \cup { equeue[i] : i \in 1 .. Len(equeue) }
    \cup (IF streamer.pc \in {"set", "write"} THEN {streamer.item} ELSE {})

\* C27: every frame encoded by the pipeline's default encoder is emitted
\* with encoder id 1 and frame kind FULL_FRAME, for any number of
\* consecutive frames.
C27_AlwaysFullFrame ==
    /\ \A e \in EncodedInFlight : read_int(e, 0) = 1 /\ read_int(e, 4) = FULL_FRAME
    /\ \A i \in 1 .. Len(streamer.handled) :
          /\ streamer.handled[i].data.f[3] = 1
          /\ streamer.handled[i].data.f[4] = FULL_FRAME

\* Every grab of the screen was a frame, and all of them have been
\* encoded, one after the other, and handed to the writer
C27_ConsecutiveFrames ==
    /\ screen = << >>
    /\ Len(streamer.handled) = MaxFrames
    /\ encoder._frame_count = 1

\* stop() has not been called and no grab of the screen failed to encode
RunningAndEncodable == pipeline.stops = 0 /\ encoder.pc # "dead"

\* C32: no lost wake-up in the capture-encode-send pipeline: while the
\* pipeline is running and frames are encodable, the capture stage is
\* never left waiting for an event that nobody will set; the sender's set
\* for a frame is never erased by the capture stage's clear for that frame.
C32_NoLostWakeup == ~(RunningAndEncodable /\ Stalled)

\* C33: at most one frame is in flight between stages: while the pipeline
\* has not been stopped the two queues together hold at most one item, and
\* a stage that is about to put finds its queue with room.
C33_OneFrameInFlight ==
    pipeline.stops = 0 =>
        /\ Len(cqueue) + Len(equeue) <= 1
        /\ capturer.pc = "put" => Len(cqueue) < SendMaxsize
        /\ encoder.pc = "put" => Len(equeue) < SendMaxsize

\* The second frame is in the encoder's queue while the pipeline runs: the
\* capture stage was released once and both stages have put twice
C33_SecondFrameQueued ==
    /\ pipeline.stops = 0 /\ pipeline._threads = "started"
    /\ Len(equeue) = 1
    /\ Len(streamer.handled) = 1
    /\ cqueue = << >>

\* The worker thread of the stream got an OSError from the socket: the
\* stream was closed and not by an end of file
ClosedByError(st) == st.present /\ st.closed /\ ~st.eof

\* C38: a socket error is recorded on the stream: once the worker thread
\* of an InputStream or OutputStream has got an OSError, the stream is
\* closed with running false and the error stored, so that
\* has_exception() returns true.
C38_ErrorRecorded ==
    \A st \in {inS, outS} :
        ClosedByError(st) => ~getv(st.running) /\ has_exception(st)

\* C39: get_input_stream() and get_output_stream() never return a stream
\* that is already closed: after an end of file or a socket failure the
\* next call returns None or a new stream.
C39_NoClosedStream ==
    \A g \in {get_input_stream, get_output_stream} :
        (~g.err /\ g.stream.present) => ~g.stream.closed

\* C40: is_connected() implies a live socket: in every reachable state,
\* including after stop(), if is_connected() returns true then
\* Connection.socket is not None.
C40_ConnectedHasSocket == getv(connected) => socket # 0

\* C34: InputStream loses and duplicates no bytes: between read() calls,
\* the values returned so far, one after the other, followed by what is in
\* the buffer, are the bytes received from the socket so far, in order.
C34_ReadLosesNothing ==
    istream.pc = "idle" => istream.returned \o istream.buf.val = istream.received

\* C35: OutputStream sends every byte once and in order: the bytes handed
\* to the socket are the first bytes of the data written, and when the
\* buffer is empty and the thread is at the top of its loop they are all
\* of it.
C35_WriteSendsAll ==
    /\ Len(ostream.handed) <= Len(ostream.written)
    /\ ostream.handed = SubSeq(ostream.written, 1, Len(ostream.handed))
    /\ (ostream.pc = "loop" /\ ostream.buf.val = << >>) => ostream.handed = ostream.written

\* The sync sequences the reader has not gone past: in the unread bytes
\* of its buffer or still to arrive
SyncAhead == Find(SubSeq(reader.buf, reader.pos + 1, Len(reader.buf)) \o wire, sync_packet_bytes) # -1

\* C37: resync always moves forward: the reader positioned just past a
\* sync sequence never selects that same sequence again, so it does not
\* loop on one position while a later sync sequence is there to advance to.
C37_ResyncMovesForward ==
    ~(/\ reader.pc = "spin"
      /\ SyncPosition(reader) # -1
      /\ reader.pos = SyncPosition(reader) + Len(sync_packet_bytes)
      /\ SyncAhead)

\* The results of the calls that were not interrupted
Uninterrupted == SelectSeq(got, LAMBDA g : g.res # "NoDataAvailableError")

\* C36: framing does not depend on chunking or interruption: however the
\* stream is split across connection reads and wherever a call is
\* interrupted, the calls that come to an end return the packets of the
\* stream, in order, and when the stream is drained all of them.
C36_FramingKeptAcrossInterrupts ==
    LET ds == [i \in 1 .. Len(sent) |-> sent[i].d]
    IN  /\ Len(Uninterrupted) <= Len(ds)
        /\ \A i \in 1 .. Len(Uninterrupted) :
              Uninterrupted[i].res = "return" /\ SameData(Uninterrupted[i].d, ds[i])
        /\ Drained => Len(Uninterrupted) = Len(ds)

\* The thread waits in a connection.read that has nothing to deliver and
\* does not raise
ReadWaits == processor.pc = "read" /\ processor.conn = "blocking" /\ wire = << >>

\* stop() waits in thread.join() for a thread that will not test its
\* running flag again
StopBlocked == processor.stop = "join" /\ (ReadWaits \/ processor.pc = "spin")

\* C31: dispatcher retry and exit: a read_packet call that fails with
\* NoConnection or NoDataAvailable leaves the queues as they are and is
\* followed by a sleep and the next pass of the loop, and stop() is never
\* left waiting for a dispatcher thread that cannot exit, including when
\* no data is arriving.
C31_RetryAndExit ==
    /\ [](~StopBlocked)
    /\ [][PacketProcessor_except => (queues' = queues /\ processor'.pc = "sleep")]_vars

====
